---- MODULE Spec2Model ----
(***************************************************************************)
(* The central instance registry of wpod (cmd/wp-manager): the persistent  *)
(* store (readManagerMeta / writeManagerMeta), the sentinel FileLock, the  *)
(* port allocator (findAvailablePort) and the registry commands built on   *)
(* them, as they run in several independent OS processes over one          *)
(* directory of files.                                                     *)
(***************************************************************************)
EXTENDS Integers, Sequences, FiniteSets, TLC

\* ------------------------------------------------------------------ bounds
\* Number of OS processes that invoke the store concurrently.
NumProcs == 2
Procs == 1..NumProcs

\* Instance names, in the byte order json.MarshalIndent sorts map keys by.
NameOrder == <<"a", "b">>
Names == {NameOrder[i] : i \in 1..Len(NameOrder)}

\* The TCP ports of the model: PortLo .. PortLo + PortSpan.
PortLo == 8000
PortSpan == 3
Ports == PortLo..(PortLo + PortSpan)

\* Instance directories.
Dirs == {"/sites/a", "/sites/b"}

\* ------------------------------------------------------------ data model
\* InstanceMeta (json_helpers.go:205-212).
InstanceMeta(dir, port, status) ==
    [Directory |-> dir, CreationDate |-> "2025-01-01", WordPressVersion |-> "6.5",
     DBVersion |-> "11", WordPressPort |-> port, Status |-> status]

\* The Go zero value InstanceMeta{}.
ZeroMeta ==
    [Directory |-> "", CreationDate |-> "", WordPressVersion |-> "",
     DBVersion |-> "", WordPressPort |-> 0, Status |-> ""]

\* ManagerMeta (map[string]InstanceMeta): the key set and the value of each
\* key; a name that is not a key carries the zero value.
EmptyMap == [keys |-> {}, val |-> [n \in Names |-> ZeroMeta]]

MapPut(m, n, r) == [keys |-> m.keys \cup {n}, val |-> [m.val EXCEPT ![n] = r]]

MapDelete(m, n) == [keys |-> m.keys \ {n}, val |-> [m.val EXCEPT ![n] = ZeroMeta]]

\* ------------------------------------------------------- serialization
\* The bytes of the registry file, as a sequence of JSON tokens: an opening
\* brace, one "name": {record} member per key, a closing brace.
TokOpen == [kind |-> "open", name |-> "", rec |-> ZeroMeta]
TokClose == [kind |-> "close", name |-> "", rec |-> ZeroMeta]
TokEntry(n, r) == [kind |-> "entry", name |-> n, rec |-> r]

\* A directory path as the operating system hands it out, whose last byte
\* (0xE9, a Latin-1 e-acute) is not valid UTF-8.
Latin1Dir == "/sites/caf<E9>"

\* The string encoding/json writes for a Go string: every byte that is not
\* valid UTF-8 becomes U+FFFD.
ToValidUTF8(s) == IF s = Latin1Dir THEN "/sites/caf<FFFD>" ELSE s

\* The string fields of a record as encoding/json writes them.
EncodeMeta(r) ==
    [Directory |-> ToValidUTF8(r.Directory),
     CreationDate |-> ToValidUTF8(r.CreationDate),
     WordPressVersion |-> ToValidUTF8(r.WordPressVersion),
     DBVersion |-> ToValidUTF8(r.DBVersion),
     WordPressPort |-> r.WordPressPort,
     Status |-> ToValidUTF8(r.Status)]

RECURSIVE MarshalMembers(_, _)
MarshalMembers(m, i) ==
    IF i > Len(NameOrder) THEN <<>>
    ELSE (IF NameOrder[i] \in m.keys
             THEN <<TokEntry(NameOrder[i], EncodeMeta(m.val[NameOrder[i]]))>>
             ELSE <<>>) \o MarshalMembers(m, i + 1)

\* json.MarshalIndent(meta, "", "  "): members in sorted key order.
MarshalIndent(m) == <<TokOpen>> \o MarshalMembers(m, 1) \o <<TokClose>>

\* Whether json.Unmarshal(data, &meta) accepts the bytes.
WellFormed(data) ==
    /\ Len(data) >= 2
    /\ data[1] = TokOpen
    /\ data[Len(data)] = TokClose
    /\ \A i \in 2..(Len(data) - 1) : data[i].kind = "entry"

RECURSIVE UnmarshalMembers(_, _, _)
UnmarshalMembers(data, i, m) ==
    IF i > Len(data) - 1 THEN m
    ELSE UnmarshalMembers(data, i + 1, MapPut(m, data[i].name, data[i].rec))

\* json.Unmarshal into a fresh ManagerMeta; a later duplicate key wins.
Unmarshal(data) == UnmarshalMembers(data, 2, EmptyMap)

\* ----------------------------------------------------------------- files
NoFile == [exists |-> FALSE, data |-> <<>>]
FileOf(data) == [exists |-> TRUE, data |-> data]

\* metaPath + ".lock", and a second sentinel path used only to exercise
\* FileLock on its own.
MetaLockPath == ".wpid-instances.json.lock"
OtherLockPath == "other.lock"
LockPaths == {MetaLockPath, OtherLockPath}

VARIABLES
    registry,   \* the registry file at metaPath
    lockFiles,  \* the sentinel files that exist
    temp,       \* temp[p]: the temp file created by p's writeManagerMeta call
    pc,         \* pc[p]: where process p is
    cmd,        \* cmd[p]: the operation p is running
    meta,       \* meta[p]: p's in-memory ManagerMeta
    err,        \* err[p]: what p's last store call returned
    locked,     \* locked[p]: p's Lock() succeeded and its deferred Unlock is pending
    data,       \* data[p]: the bytes p marshalled (write) or read (read)
    before,     \* before[p]: the registry file when p's write call took the lock
    lastCall,   \* lastCall[p]: the last FileLock call p made directly
    search,     \* the findAvailablePort call in progress: arguments and locals
    busy,       \* the TCP ports some process on the host has bound
    used0,      \* usedPorts as passed to the findAvailablePort call
    probeFailed, \* the ports whose bind probe failed during the call
    arg,        \* arg[p]: the instance name and record the command of p works on
    dirs,       \* the instance directories that exist on disk
    snap,       \* snap[p]: the mapping p's command got from readManagerMeta
    warned,     \* warned[p]: p's last readManagerMeta printed the "might be corrupt" warning
    confirmed,  \* confirmed[p]: the user answered a confirmation prompt of p's command with yes
    statErr,    \* the directories on which os.Stat fails with an error other than "not exist"
    usedMap,    \* usedMap[p]: the usedPorts map of p's createInstance
    up,         \* the instance directories whose docker containers are up
    alloc       \* alloc[p]: the ports p's createInstance got from findAvailablePort, in order

storeVars == <<registry, lockFiles, temp, pc, cmd, meta, err, data, locked, before>>

\* What no step of the store reads or writes.
portVars == <<search, busy, used0, probeFailed>>

toolVars == <<arg, dirs, snap, warned, confirmed, statErr, up, usedMap, alloc>>

nonStoreVars == <<lastCall, portVars, toolVars>>

\* What no step of findAvailablePort reads or writes.
nonPortVars == <<storeVars, lastCall, toolVars>>

\* What a direct FileLock call leaves alone, lockFiles and lastCall apart.
nonLockVars == <<registry, temp, pc, cmd, meta, err, data, locked, before, portVars, toolVars>>

vars == <<storeVars, nonStoreVars>>

\* --------------------------------------------------------------- FileLock
\* Lock opening the sentinel with O_CREATE alone.
FileLock_Lock_NoExcl(files, path) ==
    [err |-> FALSE, files |-> files \cup {path}]

\* FileLock.Lock: os.OpenFile(path, O_CREATE|O_EXCL): fails when the file
\* exists, creates it otherwise.
FileLock_Lock(files, path) ==
    IF path \in files
        THEN [err |-> TRUE, files |-> files]
        ELSE [err |-> FALSE, files |-> files \cup {path}]

\* FileLock.Unlock: os.Remove(path): an error and no change when the file
\* does not exist.
FileLock_Unlock(files, path) ==
    [err |-> path \notin files, files |-> files \ {path}]

\* ------------------------------------------------- what commands compute
\* The mappings handed to writeManagerMeta when the store is exercised
\* directly.
MetaA == MapPut(EmptyMap, "a", InstanceMeta("/sites/a", 11000, "Running"))
MetaAB == MapPut(MetaA, "b", InstanceMeta("/sites/b", 11001, "Stopped"))
Metas == {EmptyMap, MetaAB}

\* The record registerInstance builds for the instance called n: the local
\* marker file's content, with Directory set to the instance path.
LocalMeta(n) == MetaAB.val[n]

RegisterInputs == {[name |-> n, rec |-> LocalMeta(n)] : n \in Names}

\* registerInstance's conflict scan: the name is a key already, or some
\* entry has the directory.
Conflict(m, n, path) ==
    \/ n \in m.keys
    \/ \E k \in m.keys : m.val[k].Directory = path

\* os.Stat(path): nil, an error os.IsNotExist accepts, or another error.
Stat(path) ==
    IF path \in statErr THEN "error"
    ELSE IF path \in dirs THEN "nil" ELSE "notexist"

\* Every entry whose os.Stat returns an error counted as missing.
MissingInstances_AnyError(m) == {n \in m.keys : Stat(m.val[n].Directory) # "nil"}

\* pruneInstances: the entries whose os.Stat(meta.Directory) says the
\* directory does not exist.
MissingInstances(m) == {n \in m.keys : Stat(m.val[n].Directory) = "notexist"}

RECURSIVE DeleteAll(_, _)
DeleteAll(m, ns) ==
    IF ns = {} THEN m
    ELSE LET n == CHOOSE x \in ns : TRUE IN DeleteAll(MapDelete(m, n), ns \ {n})

\* The mapping a command hands to writeManagerMeta, from the mapping m it
\* read.
ToolApply(c, a, m) ==
    CASE c \in {"register", "create"} -> MapPut(m, a.name, a.rec)
      [] c \in {"unregister", "delete"} -> MapDelete(m, a.name)
      [] c = "prune" -> DeleteAll(m, MissingInstances(m))
      [] OTHER -> EmptyMap

\* ------------------------------------------------------ writeManagerMeta
\* The steps of one writeManagerMeta(meta[p]) call of process p.  pc[p]:
\*   w_lock     about to call fileLock.Lock()
\*   w_marshal  lock held, about to json.MarshalIndent
\*   w_create   about to os.CreateTemp
\*   w_write    temp file open, tempFile.Write in progress
\*   w_close    about to tempFile.Close
\*   w_rename   about to os.Rename(tempPath, metaPath)
\*   w_cleanup  returning: the deferred temp-file cleanup is next
\*   w_unlock   returning: the deferred fileLock.Unlock is next
\*   w_ret      returned err[p] to the caller
WritePCs == {"w_lock", "w_marshal", "w_create", "w_write", "w_close",
             "w_rename", "w_cleanup", "w_unlock"}

\* Lock with the Unlock deferred before the error check: a failed Lock
\* removes the sentinel on the way out.
Lock_DeferFirst(p) ==
    /\ pc[p] = "w_lock"
    /\ LET r == FileLock_Lock(lockFiles, MetaLockPath) IN
        IF r.err
          THEN /\ lockFiles' = FileLock_Unlock(r.files, MetaLockPath).files
               /\ err' = [err EXCEPT ![p] = "lock"]
               /\ pc' = [pc EXCEPT ![p] = "w_ret"]
               /\ UNCHANGED <<locked, before>>
          ELSE /\ lockFiles' = r.files
               /\ locked' = [locked EXCEPT ![p] = TRUE]
               /\ before' = [before EXCEPT ![p] = registry]
               /\ pc' = [pc EXCEPT ![p] = "w_marshal"]
               /\ UNCHANGED err
    /\ UNCHANGED <<registry, temp, cmd, meta, data>>
    /\ UNCHANGED nonStoreVars

\* Lock() taking over a sentinel it finds, as if every sentinel found were
\* stale.
Lock_TakeOver(p) ==
    /\ pc[p] = "w_lock"
    /\ lockFiles' = lockFiles \cup {MetaLockPath}
    /\ locked' = [locked EXCEPT ![p] = TRUE]
    /\ before' = [before EXCEPT ![p] = registry]
    /\ pc' = [pc EXCEPT ![p] = "w_marshal"]
    /\ UNCHANGED <<registry, temp, cmd, meta, data, err>>
    /\ UNCHANGED nonStoreVars

\* fileLock.Lock(); on error return at once (the Unlock is deferred only
\* after the error check).
Lock(p) ==
    /\ pc[p] = "w_lock"
    /\ LET r == FileLock_Lock(lockFiles, MetaLockPath) IN
        /\ lockFiles' = r.files
        /\ IF r.err
              THEN /\ err' = [err EXCEPT ![p] = "lock"]
                   /\ pc' = [pc EXCEPT ![p] = "w_ret"]
                   /\ UNCHANGED <<locked, before>>
              ELSE /\ locked' = [locked EXCEPT ![p] = TRUE]
                   /\ before' = [before EXCEPT ![p] = registry]
                   /\ pc' = [pc EXCEPT ![p] = "w_marshal"]
                   /\ UNCHANGED err
    /\ UNCHANGED <<registry, temp, cmd, meta, data>>
    /\ UNCHANGED nonStoreVars

\* writeManagerMeta reading the registry file again under the lock and
\* applying the command's change to that, instead of marshalling the mapping
\* it was given.
Marshal_Reread(p) ==
    /\ pc[p] = "w_marshal"
    /\ data' = [data EXCEPT ![p] =
          IF cmd[p] \in {"register", "unregister", "prune"}
            THEN MarshalIndent(ToolApply(cmd[p], arg[p],
                   IF registry.exists /\ WellFormed(registry.data)
                     THEN Unmarshal(registry.data) ELSE EmptyMap))
            ELSE MarshalIndent(meta[p])]
    /\ pc' = [pc EXCEPT ![p] = "w_create"]
    /\ UNCHANGED <<registry, lockFiles, temp, cmd, meta, err, locked, before>>
    /\ UNCHANGED nonStoreVars

\* data, err := json.MarshalIndent(meta, "", "  ")
Marshal(p) ==
    /\ pc[p] = "w_marshal"
    /\ data' = [data EXCEPT ![p] = MarshalIndent(meta[p])]
    /\ pc' = [pc EXCEPT ![p] = "w_create"]
    /\ UNCHANGED <<registry, lockFiles, temp, cmd, meta, err, locked, before>>
    /\ UNCHANGED nonStoreVars

\* The marshal error returned without the lock being released.
MarshalFail_NoUnlock(p) ==
    /\ pc[p] = "w_marshal"
    /\ err' = [err EXCEPT ![p] = "marshal"]
    /\ pc' = [pc EXCEPT ![p] = "w_ret"]
    /\ UNCHANGED <<registry, lockFiles, temp, cmd, meta, data, locked, before>>
    /\ UNCHANGED nonStoreVars

\* ... if err != nil { return "failed to marshal" }: only Unlock is deferred.
MarshalFail(p) ==
    /\ pc[p] = "w_marshal"
    /\ err' = [err EXCEPT ![p] = "marshal"]
    /\ pc' = [pc EXCEPT ![p] = "w_unlock"]
    /\ UNCHANGED <<registry, lockFiles, temp, cmd, meta, data, locked, before>>
    /\ UNCHANGED nonStoreVars

\* tempFile, err := os.CreateTemp(dir, name+".*.tmp"): a new empty file.
CreateTemp(p) ==
    /\ pc[p] = "w_create"
    /\ temp' = [temp EXCEPT ![p] = FileOf(<<>>)]
    /\ pc' = [pc EXCEPT ![p] = "w_write"]
    /\ UNCHANGED <<registry, lockFiles, cmd, meta, err, data, locked, before>>
    /\ UNCHANGED nonStoreVars

CreateTempFail(p) ==
    /\ pc[p] = "w_create"
    /\ err' = [err EXCEPT ![p] = "create"]
    /\ pc' = [pc EXCEPT ![p] = "w_unlock"]
    /\ UNCHANGED <<registry, lockFiles, temp, cmd, meta, data, locked, before>>
    /\ UNCHANGED nonStoreVars

\* The file that tempFile.Write writes to, in place of the temp file.
TempWrite_InPlace(p) ==
    /\ pc[p] = "w_write"
    /\ LET n == Len(temp[p].data) IN
        /\ temp' = [temp EXCEPT ![p] = FileOf(Append(temp[p].data, data[p][n + 1]))]
        /\ registry' = FileOf(Append(temp[p].data, data[p][n + 1]))
        /\ pc' = [pc EXCEPT ![p] = IF n + 1 = Len(data[p]) THEN "w_close" ELSE "w_write"]
    /\ UNCHANGED <<lockFiles, cmd, meta, err, data, locked, before>>
    /\ UNCHANGED nonStoreVars

\* tempFile.Write(data): the bytes reach the temp file piece by piece.
TempWrite(p) ==
    /\ pc[p] = "w_write"
    /\ LET n == Len(temp[p].data) IN
        /\ temp' = [temp EXCEPT ![p] = FileOf(Append(temp[p].data, data[p][n + 1]))]
        /\ pc' = [pc EXCEPT ![p] = IF n + 1 = Len(data[p]) THEN "w_close" ELSE "w_write"]
    /\ UNCHANGED <<registry, lockFiles, cmd, meta, err, data, locked, before>>
    /\ UNCHANGED nonStoreVars

\* Write fails part-way: tempFile.Close(); return "failed to write data".
TempWriteFail(p) ==
    /\ pc[p] = "w_write"
    /\ err' = [err EXCEPT ![p] = "write"]
    /\ pc' = [pc EXCEPT ![p] = "w_cleanup"]
    /\ UNCHANGED <<registry, lockFiles, temp, cmd, meta, data, locked, before>>
    /\ UNCHANGED nonStoreVars

\* tempFile.Close()
CloseTemp(p) ==
    /\ pc[p] = "w_close"
    /\ pc' = [pc EXCEPT ![p] = "w_rename"]
    /\ UNCHANGED <<registry, lockFiles, temp, cmd, meta, err, data, locked, before>>
    /\ UNCHANGED nonStoreVars

CloseTempFail(p) ==
    /\ pc[p] = "w_close"
    /\ err' = [err EXCEPT ![p] = "close"]
    /\ pc' = [pc EXCEPT ![p] = "w_cleanup"]
    /\ UNCHANGED <<registry, lockFiles, temp, cmd, meta, data, locked, before>>
    /\ UNCHANGED nonStoreVars

\* os.Rename(tempPath, metaPath): the temp file replaces the registry file
\* in one step; return nil.
Rename(p) ==
    /\ pc[p] = "w_rename"
    /\ registry' = temp[p]
    /\ temp' = [temp EXCEPT ![p] = NoFile]
    /\ err' = [err EXCEPT ![p] = "nil"]
    /\ pc' = [pc EXCEPT ![p] = "w_cleanup"]
    /\ UNCHANGED <<lockFiles, cmd, meta, data, locked, before>>
    /\ UNCHANGED nonStoreVars

RenameFail(p) ==
    /\ pc[p] = "w_rename"
    /\ err' = [err EXCEPT ![p] = "rename"]
    /\ pc' = [pc EXCEPT ![p] = "w_cleanup"]
    /\ UNCHANGED <<registry, lockFiles, temp, cmd, meta, data, locked, before>>
    /\ UNCHANGED nonStoreVars

\* The deferred cleanup without its os.Remove.
CleanupTemp_Keep(p) ==
    /\ pc[p] = "w_cleanup"
    /\ pc' = [pc EXCEPT ![p] = "w_unlock"]
    /\ UNCHANGED <<registry, lockFiles, temp, cmd, meta, err, data, locked, before>>
    /\ UNCHANGED nonStoreVars

\* defer: if os.Stat(tempPath) == nil { os.Remove(tempPath) }
CleanupTemp(p) ==
    /\ pc[p] = "w_cleanup"
    /\ temp' = [temp EXCEPT ![p] = IF temp[p].exists THEN NoFile ELSE temp[p]]
    /\ pc' = [pc EXCEPT ![p] = "w_unlock"]
    /\ UNCHANGED <<registry, lockFiles, cmd, meta, err, data, locked, before>>
    /\ UNCHANGED nonStoreVars

\* defer fileLock.Unlock(), the last thing before the call returns.
Unlock(p) ==
    /\ pc[p] = "w_unlock"
    /\ lockFiles' = FileLock_Unlock(lockFiles, MetaLockPath).files
    /\ locked' = [locked EXCEPT ![p] = FALSE]
    /\ data' = [data EXCEPT ![p] = <<>>]
    /\ before' = [before EXCEPT ![p] = NoFile]
    /\ pc' = [pc EXCEPT ![p] = "w_ret"]
    /\ UNCHANGED <<registry, temp, cmd, meta, err>>
    /\ UNCHANGED nonStoreVars

\* The OS process is killed inside writeManagerMeta: its files stay as they
\* are, no deferred function runs.
Crash(p) ==
    /\ pc[p] \in WritePCs
    /\ pc' = [pc EXCEPT ![p] = "crashed"]
    /\ meta' = [meta EXCEPT ![p] = EmptyMap]
    /\ data' = [data EXCEPT ![p] = <<>>]
    /\ err' = [err EXCEPT ![p] = "none"]
    /\ cmd' = [cmd EXCEPT ![p] = "none"]
    /\ before' = [before EXCEPT ![p] = NoFile]
    /\ UNCHANGED <<registry, lockFiles, temp, locked>>
    /\ UNCHANGED nonStoreVars

\* ------------------------------------------------------- readManagerMeta
\* What the other variables of a readManagerMeta call are left as.
ReadLeaves ==
    /\ UNCHANGED <<registry, lockFiles, temp, cmd, locked, before>>
    /\ UNCHANGED <<lastCall, portVars, arg, dirs, snap, confirmed, statErr, up, usedMap, alloc>>

\* readManagerMeta returning the json.Unmarshal error to its caller.
ReadManagerMeta_FailCorrupt(p) ==
    /\ pc[p] = "r_read"
    /\ data' = [data EXCEPT ![p] = IF registry.exists THEN registry.data ELSE <<>>]
    /\ meta' = [meta EXCEPT ![p] =
                  IF registry.exists /\ WellFormed(registry.data)
                      THEN Unmarshal(registry.data) ELSE EmptyMap]
    /\ warned' = [warned EXCEPT ![p] = FALSE]
    /\ err' = [err EXCEPT ![p] =
                  IF registry.exists /\ Len(registry.data) # 0 /\ ~WellFormed(registry.data)
                      THEN "unmarshal" ELSE "nil"]
    /\ pc' = [pc EXCEPT ![p] = "r_ret"]
    /\ ReadLeaves

\* os.ReadFile(metaPath) and the decoding of what it returned: a missing
\* file, an empty file and bytes json.Unmarshal rejects all give an empty
\* map and a nil error; the last of these prints a warning.
ReadManagerMeta(p) ==
    /\ pc[p] = "r_read"
    /\ data' = [data EXCEPT ![p] = IF registry.exists THEN registry.data ELSE <<>>]
    /\ meta' = [meta EXCEPT ![p] =
                  IF registry.exists /\ WellFormed(registry.data)
                      THEN Unmarshal(registry.data) ELSE EmptyMap]
    /\ warned' = [warned EXCEPT ![p] =
                  registry.exists /\ Len(registry.data) # 0 /\ ~WellFormed(registry.data)]
    /\ err' = [err EXCEPT ![p] = "nil"]
    /\ pc' = [pc EXCEPT ![p] = "r_ret"]
    /\ ReadLeaves

\* getManagerMetaPath fails: return nil and "could not determine manager
\* meta path".
ReadPathFail(p) ==
    /\ pc[p] = "r_read"
    /\ data' = [data EXCEPT ![p] = <<>>]
    /\ meta' = [meta EXCEPT ![p] = EmptyMap]
    /\ warned' = [warned EXCEPT ![p] = FALSE]
    /\ err' = [err EXCEPT ![p] = "path"]
    /\ pc' = [pc EXCEPT ![p] = "r_ret"]
    /\ ReadLeaves

\* os.ReadFile fails with an error other than "not exist" (the file is
\* there and cannot be read): return nil and "failed to read manager meta
\* file".
ReadFileFail(p) ==
    /\ pc[p] = "r_read"
    /\ registry.exists
    /\ data' = [data EXCEPT ![p] = <<>>]
    /\ meta' = [meta EXCEPT ![p] = EmptyMap]
    /\ warned' = [warned EXCEPT ![p] = FALSE]
    /\ err' = [err EXCEPT ![p] = "read"]
    /\ pc' = [pc EXCEPT ![p] = "r_ret"]
    /\ ReadLeaves

\* One readManagerMeta call of process p.
ReadStep(p) ==
    \/ ReadManagerMeta(p)
    \/ ReadPathFail(p)
    \/ ReadFileFail(p)

\* ------------------------------------------------- the store on its own
NoArg == [name |-> "", rec |-> ZeroMeta]

NoCall == [op |-> "none", path |-> "", err |-> FALSE, n |-> 0]

InitLocals ==
    /\ temp = [p \in Procs |-> NoFile]
    /\ pc = [p \in Procs |-> "idle"]
    /\ cmd = [p \in Procs |-> "none"]
    /\ meta = [p \in Procs |-> EmptyMap]
    /\ err = [p \in Procs |-> "none"]
    /\ data = [p \in Procs |-> <<>>]
    /\ locked = [p \in Procs |-> FALSE]
    /\ before = [p \in Procs |-> NoFile]
    /\ lastCall = [p \in Procs |-> NoCall]
    /\ arg = [p \in Procs |-> NoArg]
    /\ snap = [p \in Procs |-> EmptyMap]
    /\ warned = [p \in Procs |-> FALSE]
    /\ confirmed = [p \in Procs |-> FALSE]
    /\ usedMap = [p \in Procs |-> {}]
    /\ alloc = [p \in Procs |-> <<>>]

\* No findAvailablePort call.
NoSearch ==
    [startPort |-> 0, endPort |-> 0, usedPorts |-> {}, i |-> 0,
     port |-> 0, err |-> "none", pc |-> "idle"]

InitNoPorts ==
    /\ search = NoSearch
    /\ busy = {}
    /\ used0 = {}
    /\ probeFailed = {}

\* No registry file yet, or one left by an earlier run.
Init ==
    /\ registry \in {NoFile, FileOf(MarshalIndent(MetaA))}
    /\ lockFiles = {}
    /\ dirs = Dirs
    /\ statErr = {}
    /\ up = {}
    /\ InitLocals
    /\ InitNoPorts

\* A process calls writeManagerMeta(m).
CallWrite(p, m) ==
    /\ pc[p] = "idle"
    /\ cmd' = [cmd EXCEPT ![p] = "write"]
    /\ meta' = [meta EXCEPT ![p] = m]
    /\ pc' = [pc EXCEPT ![p] = "w_lock"]
    /\ UNCHANGED <<registry, lockFiles, temp, err, data, locked, before>>
    /\ UNCHANGED nonStoreVars

\* A process calls readManagerMeta().
CallRead(p) ==
    /\ pc[p] = "idle"
    /\ cmd' = [cmd EXCEPT ![p] = "read"]
    /\ pc' = [pc EXCEPT ![p] = "r_read"]
    /\ UNCHANGED <<registry, lockFiles, temp, meta, err, data, locked, before>>
    /\ UNCHANGED nonStoreVars

\* The caller is done with the result; the process is free for another call.
Return(p) ==
    /\ cmd[p] \in {"write", "read"}
    /\ pc[p] \in {"w_ret", "r_ret"}
    /\ pc' = [pc EXCEPT ![p] = "idle"]
    /\ cmd' = [cmd EXCEPT ![p] = "none"]
    /\ meta' = [meta EXCEPT ![p] = EmptyMap]
    /\ err' = [err EXCEPT ![p] = "none"]
    /\ data' = [data EXCEPT ![p] = <<>>]
    /\ UNCHANGED <<registry, lockFiles, temp, locked, before>>
    /\ UNCHANGED nonStoreVars

\* One step of writeManagerMeta in process p.
WriteStep(p) ==
    \/ Lock(p)
    \/ Marshal(p)
    \/ MarshalFail(p)
    \/ CreateTemp(p)
    \/ CreateTempFail(p)
    \/ TempWrite(p)
    \/ TempWriteFail(p)
    \/ CloseTemp(p)
    \/ CloseTempFail(p)
    \/ Rename(p)
    \/ RenameFail(p)
    \/ CleanupTemp(p)
    \/ Unlock(p)

Next ==
    \E p \in Procs :
        \/ \E m \in Metas : CallWrite(p, m)
        \/ CallRead(p)
        \/ WriteStep(p)
        \/ ReadStep(p)
        \/ Return(p)
        \/ Crash(p)

\* Concurrent writeManagerMeta / readManagerMeta calls, writers may be killed.
Spec == Init /\ [][Next]_vars

\* Concurrent writeManagerMeta calls when no process is killed: the tool is
\* a run-to-completion process, so a call that can take a step takes it.
NextLive ==
    \E p \in Procs :
        \/ \E m \in Metas : CallWrite(p, m)
        \/ WriteStep(p)
        \/ Return(p)

SpecLive ==
    /\ Init
    /\ [][NextLive]_vars
    /\ \A p \in Procs : WF_vars(WriteStep(p))

\* ------------------------------------------------- FileLock on its own
\* A process calls Lock() on a FileLock for path.
DirectLock(p, path) ==
    /\ LET r == FileLock_Lock(lockFiles, path) IN
        /\ lockFiles' = r.files
        /\ lastCall' = [lastCall EXCEPT ![p] =
               [op |-> "lock", path |-> path, err |-> r.err, n |-> 1 - lastCall[p].n]]
    /\ UNCHANGED nonLockVars

\* A process calls Unlock() on a FileLock for path.
DirectUnlock(p, path) ==
    /\ LET r == FileLock_Unlock(lockFiles, path) IN
        /\ lockFiles' = r.files
        /\ lastCall' = [lastCall EXCEPT ![p] =
               [op |-> "unlock", path |-> path, err |-> r.err, n |-> 1 - lastCall[p].n]]
    /\ UNCHANGED nonLockVars

InitLock ==
    /\ registry = NoFile
    /\ lockFiles \in SUBSET LockPaths
    /\ dirs = Dirs
    /\ statErr = {}
    /\ up = {}
    /\ InitLocals
    /\ InitNoPorts

NextLock ==
    \E p \in Procs : \E path \in LockPaths :
        \/ DirectLock(p, path)
        \/ DirectUnlock(p, path)

\* Lock() and Unlock() called in any order on any sentinel path.
SpecLock == InitLock /\ [][NextLock]_vars

\* ------------------------------------------------------ registry commands
\* The two tool invocations that run side by side.
Invokers == {1, 2}

\* The command is over: the process exits.
Exit(p) ==
    /\ pc' = [pc EXCEPT ![p] = "idle"]
    /\ cmd' = [cmd EXCEPT ![p] = "none"]
    /\ arg' = [arg EXCEPT ![p] = NoArg]
    /\ meta' = [meta EXCEPT ![p] = EmptyMap]
    /\ err' = [err EXCEPT ![p] = "none"]
    /\ data' = [data EXCEPT ![p] = <<>>]
    /\ snap' = [snap EXCEPT ![p] = EmptyMap]
    /\ warned' = [warned EXCEPT ![p] = FALSE]
    /\ confirmed' = [confirmed EXCEPT ![p] = FALSE]
    /\ usedMap' = [usedMap EXCEPT ![p] = {}]
    /\ alloc' = [alloc EXCEPT ![p] = <<>>]

\* The command has decided what to write, with or without a yes from the
\* user: writeManagerMeta(managerMeta).
Persist(p, m, yes) ==
    /\ snap' = [snap EXCEPT ![p] = meta[p]]
    /\ meta' = [meta EXCEPT ![p] = m]
    /\ confirmed' = [confirmed EXCEPT ![p] = yes]
    /\ pc' = [pc EXCEPT ![p] = "w_lock"]
    /\ UNCHANGED <<cmd, arg, err, data, warned, usedMap, alloc>>

\* A command starts and goes on to its readManagerMeta call.
Invoke(p, c, a) ==
    /\ pc[p] = "idle"
    /\ cmd' = [cmd EXCEPT ![p] = c]
    /\ arg' = [arg EXCEPT ![p] = a]
    /\ pc' = [pc EXCEPT ![p] = "r_read"]
    /\ UNCHANGED <<registry, lockFiles, temp, meta, err, data, locked, before>>
    /\ UNCHANGED <<lastCall, portVars, dirs, snap, warned, confirmed, statErr, up, usedMap, alloc>>

\* registerInstance, up to the read of the registry: path, local meta and
\* name are settled.
InvokeRegister(p, a) ==
    /\ Stat(a.rec.Directory) = "nil"
    /\ Invoke(p, "register", a)

\* An overwrite that keeps the creation date of the entry it replaces.
RegisterAccept_Merge(p) ==
    /\ pc[p] = "r_ret" /\ cmd[p] = "register" /\ err[p] = "nil"
    /\ Persist(p, MapPut(meta[p], arg[p].name,
                         IF arg[p].name \in meta[p].keys
                           THEN [arg[p].rec EXCEPT
                                   !.CreationDate = meta[p].val[arg[p].name].CreationDate]
                           ELSE arg[p].rec),
               Conflict(meta[p], arg[p].name, arg[p].rec.Directory))
    /\ UNCHANGED <<registry, lockFiles, temp, locked, before>>
    /\ UNCHANGED <<lastCall, portVars, dirs, statErr, up>>

\* registerInstance: no conflict, or the user answers "Yes, overwrite":
\* managerMeta[instanceName] = *localMeta, then write.
RegisterAccept(p) ==
    /\ pc[p] = "r_ret" /\ cmd[p] = "register" /\ err[p] = "nil"
    /\ Persist(p, MapPut(meta[p], arg[p].name, arg[p].rec),
               Conflict(meta[p], arg[p].name, arg[p].rec.Directory))
    /\ UNCHANGED <<registry, lockFiles, temp, locked, before>>
    /\ UNCHANGED <<lastCall, portVars, dirs, statErr, up>>

\* registerInstance: a conflict, and the user answers "No, cancel".
RegisterCancel(p) ==
    /\ pc[p] = "r_ret" /\ cmd[p] = "register" /\ err[p] = "nil"
    /\ Conflict(meta[p], arg[p].name, arg[p].rec.Directory)
    /\ Exit(p)
    /\ UNCHANGED <<registry, lockFiles, temp, locked, before>>
    /\ UNCHANGED <<lastCall, portVars, dirs, statErr, up>>

\* unregisterInstance(name) with a non-empty name.
InvokeUnregister(p, n) == Invoke(p, "unregister", [name |-> n, rec |-> ZeroMeta])

\* unregisterInstance(""): "Instance Name Required".
InvokeUnregisterNoName(p) ==
    /\ pc[p] = "idle"
    /\ cmd' = [cmd EXCEPT ![p] = "unregister"]
    /\ arg' = [arg EXCEPT ![p] = NoArg]
    /\ pc' = [pc EXCEPT ![p] = "u_usage"]
    /\ UNCHANGED <<registry, lockFiles, temp, meta, err, data, locked, before>>
    /\ UNCHANGED <<lastCall, portVars, dirs, snap, warned, confirmed, statErr, up, usedMap, alloc>>

\* unregisterInstance(""): return, before anything is read.
UnregisterUsage(p) ==
    /\ pc[p] = "u_usage"
    /\ Exit(p)
    /\ UNCHANGED <<registry, lockFiles, temp, locked, before>>
    /\ UNCHANGED <<lastCall, portVars, dirs, statErr, up>>

\* unregisterInstance: the name is not registered.
UnregisterNotFound(p) ==
    /\ pc[p] = "r_ret" /\ cmd[p] = "unregister" /\ err[p] = "nil"
    /\ arg[p].name \notin meta[p].keys
    /\ Exit(p)
    /\ UNCHANGED <<registry, lockFiles, temp, locked, before>>
    /\ UNCHANGED <<lastCall, portVars, dirs, statErr, up>>

\* The confirmed unregister writing an empty mapping.
UnregisterConfirm_Clear(p) ==
    /\ pc[p] = "r_ret" /\ cmd[p] = "unregister" /\ err[p] = "nil"
    /\ arg[p].name \in meta[p].keys
    /\ Persist(p, EmptyMap, TRUE)
    /\ UNCHANGED <<registry, lockFiles, temp, locked, before>>
    /\ UNCHANGED <<lastCall, portVars, dirs, statErr, up>>

\* unregisterInstance: confirmed; delete(managerMeta, instanceName), write.
UnregisterConfirm(p) ==
    /\ pc[p] = "r_ret" /\ cmd[p] = "unregister" /\ err[p] = "nil"
    /\ arg[p].name \in meta[p].keys
    /\ Persist(p, MapDelete(meta[p], arg[p].name), TRUE)
    /\ UNCHANGED <<registry, lockFiles, temp, locked, before>>
    /\ UNCHANGED <<lastCall, portVars, dirs, statErr, up>>

\* unregisterInstance: the user answers "No, cancel".
UnregisterCancel(p) ==
    /\ pc[p] = "r_ret" /\ cmd[p] = "unregister" /\ err[p] = "nil"
    /\ arg[p].name \in meta[p].keys
    /\ Exit(p)
    /\ UNCHANGED <<registry, lockFiles, temp, locked, before>>
    /\ UNCHANGED <<lastCall, portVars, dirs, statErr, up>>

InvokePrune(p) == Invoke(p, "prune", NoArg)

\* pruneInstances: nothing registered, or every directory found.
PruneNothing(p) ==
    /\ pc[p] = "r_ret" /\ cmd[p] = "prune" /\ err[p] = "nil"
    /\ MissingInstances(meta[p]) = {}
    /\ Exit(p)
    /\ UNCHANGED <<registry, lockFiles, temp, locked, before>>
    /\ UNCHANGED <<lastCall, portVars, dirs, statErr, up>>

\* pruneInstances: confirmed; every missing entry deleted, one write.
PruneConfirm(p) ==
    /\ pc[p] = "r_ret" /\ cmd[p] = "prune" /\ err[p] = "nil"
    /\ MissingInstances(meta[p]) # {}
    /\ Persist(p, DeleteAll(meta[p], MissingInstances(meta[p])), TRUE)
    /\ UNCHANGED <<registry, lockFiles, temp, locked, before>>
    /\ UNCHANGED <<lastCall, portVars, dirs, statErr, up>>

\* pruneInstances: the user answers "No, keep them".
PruneCancel(p) ==
    /\ pc[p] = "r_ret" /\ cmd[p] = "prune" /\ err[p] = "nil"
    /\ MissingInstances(meta[p]) # {}
    /\ Exit(p)
    /\ UNCHANGED <<registry, lockFiles, temp, locked, before>>
    /\ UNCHANGED <<lastCall, portVars, dirs, statErr, up>>

\* readManagerMeta returned an error: "Failed to Read Manager Metadata",
\* return.
ReadFailed(p) ==
    /\ pc[p] = "r_ret" /\ cmd[p] \in {"register", "unregister", "prune", "delete", "update"}
    /\ err[p] \notin {"nil", "none"}
    /\ Exit(p)
    /\ UNCHANGED <<registry, lockFiles, temp, locked, before>>
    /\ UNCHANGED <<lastCall, portVars, dirs, statErr, up>>

\* register / unregister / prune: the result of writeManagerMeta is
\* printed and the command ends.
CommandEnd(p) ==
    /\ pc[p] = "w_ret" /\ cmd[p] \in {"register", "unregister", "prune", "delete", "update"}
    /\ Exit(p)
    /\ UNCHANGED <<registry, lockFiles, temp, locked, before>>
    /\ UNCHANGED <<lastCall, portVars, dirs, statErr, up>>

\* ---------------------------------------------------------------- metaEdit
\* What the user may save from the editor: a well-formed registry, or a
\* file cut short.
EditorContents == {FileOf(MarshalIndent(MetaA)), FileOf(<<TokOpen>>)}

InvokeMetaEdit(p) ==
    /\ pc[p] = "idle"
    /\ cmd' = [cmd EXCEPT ![p] = "metaEdit"]
    /\ pc' = [pc EXCEPT ![p] = "e_stat"]
    /\ UNCHANGED <<registry, lockFiles, temp, meta, err, data, locked, before>>
    /\ UNCHANGED <<lastCall, portVars, toolVars>>

\* os.Stat(metaPath): a missing file is first created empty with
\* writeManagerMeta(make(ManagerMeta)).
EditStat(p) ==
    /\ pc[p] = "e_stat"
    /\ pc' = [pc EXCEPT ![p] = IF registry.exists THEN "e_confirm" ELSE "w_lock"]
    /\ meta' = [meta EXCEPT ![p] = EmptyMap]
    /\ UNCHANGED <<registry, lockFiles, temp, cmd, err, data, locked, before>>
    /\ UNCHANGED <<lastCall, portVars, toolVars>>

\* The initial writeManagerMeta returned: on error the command ends.
EditCreated(p) ==
    /\ pc[p] = "w_ret" /\ cmd[p] = "metaEdit"
    /\ IF err[p] = "nil"
          THEN /\ pc' = [pc EXCEPT ![p] = "e_confirm"]
               /\ err' = [err EXCEPT ![p] = "none"]
               /\ UNCHANGED <<cmd, arg, meta, data, snap, warned, confirmed, usedMap, alloc>>
          ELSE Exit(p)
    /\ UNCHANGED <<registry, lockFiles, temp, locked, before>>
    /\ UNCHANGED <<lastCall, portVars, dirs, statErr, up>>

\* "Edit Metadata Directly?" answered yes: the editor is started on
\* metaPath.
EditConfirm(p) ==
    /\ pc[p] = "e_confirm"
    /\ pc' = [pc EXCEPT ![p] = "e_editor"]
    /\ UNCHANGED <<registry, lockFiles, temp, cmd, meta, err, data, locked, before>>
    /\ UNCHANGED <<lastCall, portVars, toolVars>>

\* No editor found, or the prompt answered no.
EditCancel(p) ==
    /\ pc[p] = "e_confirm"
    /\ Exit(p)
    /\ UNCHANGED <<registry, lockFiles, temp, locked, before>>
    /\ UNCHANGED <<lastCall, portVars, dirs, statErr, up>>

\* cmd.Run(): the editor, started on metaPath itself, saves the file.
EditorSave(p, f) ==
    /\ pc[p] = "e_editor"
    /\ registry' = f
    /\ UNCHANGED <<lockFiles, temp, pc, cmd, meta, err, data, locked, before>>
    /\ UNCHANGED <<lastCall, portVars, toolVars>>

\* The editor exits with status 0: readManagerMeta is called to validate.
EditorClose(p) ==
    /\ pc[p] = "e_editor"
    /\ pc' = [pc EXCEPT ![p] = "r_read"]
    /\ UNCHANGED <<registry, lockFiles, temp, cmd, meta, err, data, locked, before>>
    /\ UNCHANGED <<lastCall, portVars, toolVars>>

\* cmd.Run() returns an error: "Failed to Execute Editor".
EditorFail(p) ==
    /\ pc[p] = "e_editor"
    /\ Exit(p)
    /\ UNCHANGED <<registry, lockFiles, temp, locked, before>>
    /\ UNCHANGED <<lastCall, portVars, dirs, statErr, up>>

\* The validation read returned: its outcome is printed, the command ends.
EditValidated(p) ==
    /\ pc[p] = "r_ret" /\ cmd[p] = "metaEdit"
    /\ Exit(p)
    /\ UNCHANGED <<registry, lockFiles, temp, locked, before>>
    /\ UNCHANGED <<lastCall, portVars, dirs, statErr, up>>

\* A registry left by earlier invocations or none; the directory of
\* instance b may have been removed by hand.
InitTool ==
    /\ registry \in {NoFile, FileOf(MarshalIndent(MetaAB))}
    /\ lockFiles = {}
    /\ dirs \in {Dirs, {"/sites/a"}}
    /\ statErr = {}
    /\ up = {}
    /\ InitLocals
    /\ InitNoPorts

NextTool ==
    \E p \in Invokers :
        \/ \E a \in RegisterInputs : InvokeRegister(p, a)
        \/ \E n \in Names : InvokeUnregister(p, n)
        \/ InvokePrune(p)
        \/ InvokeMetaEdit(p)
        \/ ReadStep(p)
        \/ ReadFailed(p)
        \/ RegisterAccept(p)
        \/ RegisterCancel(p)
        \/ UnregisterNotFound(p)
        \/ UnregisterConfirm(p)
        \/ UnregisterCancel(p)
        \/ PruneNothing(p)
        \/ PruneConfirm(p)
        \/ PruneCancel(p)
        \/ WriteStep(p)
        \/ CommandEnd(p)
        \/ EditStat(p)
        \/ EditCreated(p)
        \/ EditConfirm(p)
        \/ EditCancel(p)
        \/ \E f \in EditorContents : EditorSave(p, f)
        \/ EditorClose(p)
        \/ EditorFail(p)
        \/ EditValidated(p)

\* Two invocations of the registry commands side by side.
SpecTool == InitTool /\ [][NextTool]_vars

\* --------------------------------------------------------- deleteInstance
\* What a step of a command that touches no file of the store leaves alone.
LocalStep ==
    /\ UNCHANGED <<registry, lockFiles, temp, locked, before>>
    /\ UNCHANGED <<lastCall, portVars>>

InvokeDelete(p) == Invoke(p, "delete", NoArg)

\* deleteInstance: len(managerMeta) == 0, "No Instances Found".
DeleteNothing(p) ==
    /\ pc[p] = "r_ret" /\ cmd[p] = "delete" /\ err[p] = "nil"
    /\ meta[p].keys = {}
    /\ Exit(p)
    /\ LocalStep
    /\ UNCHANGED <<dirs, statErr, up>>

\* deleteInstance: the selection is cancelled, or "Confirm Deletion" is
\* answered "No, keep it".
DeleteCancel(p) ==
    /\ pc[p] = "r_ret" /\ cmd[p] = "delete" /\ err[p] = "nil"
    /\ meta[p].keys # {}
    /\ Exit(p)
    /\ LocalStep
    /\ UNCHANGED <<dirs, statErr, up>>

\* deleteInstance: instance n selected and "Yes, delete this instance".
DeleteConfirm(p, n) ==
    /\ pc[p] = "r_ret" /\ cmd[p] = "delete" /\ err[p] = "nil"
    /\ n \in meta[p].keys
    /\ arg' = [arg EXCEPT ![p] = [name |-> n, rec |-> meta[p].val[n]]]
    /\ confirmed' = [confirmed EXCEPT ![p] = TRUE]
    /\ pc' = [pc EXCEPT ![p] = "d_stat"]
    /\ LocalStep
    /\ UNCHANGED <<cmd, meta, err, data, dirs, snap, warned, statErr, up, usedMap, alloc>>

\* os.IsNotExist(os.Stat(instancePath)): the entry is removed and written,
\* nothing else is done.
DeleteDirMissing(p) ==
    /\ pc[p] = "d_stat"
    /\ Stat(arg[p].rec.Directory) = "notexist"
    /\ Persist(p, MapDelete(meta[p], arg[p].name), TRUE)
    /\ LocalStep
    /\ UNCHANGED <<dirs, statErr, up>>

\* The failed teardown ending the command.
DeleteTeardownFail_Abort(p) ==
    /\ pc[p] = "d_stat"
    /\ Stat(arg[p].rec.Directory) # "notexist"
    /\ Exit(p)
    /\ LocalStep
    /\ UNCHANGED <<dirs, statErr, up>>

\* docker compose down --volumes --remove-orphans in the instance
\* directory fails: "Docker Cleanup Issue", a warning, and on to the
\* directory.
DeleteTeardownFail(p) ==
    /\ pc[p] = "d_stat"
    /\ Stat(arg[p].rec.Directory) # "notexist"
    /\ warned' = [warned EXCEPT ![p] = TRUE]
    /\ pc' = [pc EXCEPT ![p] = "d_rmdir"]
    /\ LocalStep
    /\ UNCHANGED <<cmd, meta, err, data, arg, dirs, snap, confirmed, statErr, up, usedMap, alloc>>

\* The directory removed and the entry written before the containers are
\* stopped.
DeleteTeardown_EntryFirst(p) ==
    /\ pc[p] = "d_stat"
    /\ Stat(arg[p].rec.Directory) # "notexist"
    /\ Persist(p, MapDelete(meta[p], arg[p].name), TRUE)
    /\ LocalStep
    /\ UNCHANGED <<dirs, statErr, up>>

\* docker compose down --volumes --remove-orphans in the instance
\* directory succeeds: its containers are gone.
DeleteTeardown(p) ==
    /\ pc[p] = "d_stat"
    /\ Stat(arg[p].rec.Directory) # "notexist"
    /\ up' = up \ {arg[p].rec.Directory}
    /\ pc' = [pc EXCEPT ![p] = "d_rmdir"]
    /\ LocalStep
    /\ UNCHANGED <<cmd, meta, err, data, arg, dirs, snap, warned, confirmed, statErr, usedMap, alloc>>

\* os.RemoveAll(instancePath) succeeds, at once or with elevated
\* permissions.
DeleteRemoveDir(p) ==
    /\ pc[p] = "d_rmdir"
    /\ dirs' = dirs \ {arg[p].rec.Directory}
    /\ statErr' = statErr \ {arg[p].rec.Directory}
    /\ up' = up
    /\ pc' = [pc EXCEPT ![p] = "d_entry"]
    /\ LocalStep
    /\ UNCHANGED <<cmd, meta, err, data, arg, snap, warned, confirmed, usedMap, alloc>>

\* os.RemoveAll fails and the elevated attempt is declined or fails too:
\* "attempting to remove from manager list".
DeleteRemoveDirFail(p) ==
    /\ pc[p] = "d_rmdir"
    /\ warned' = [warned EXCEPT ![p] = TRUE]
    /\ pc' = [pc EXCEPT ![p] = "d_entry"]
    /\ LocalStep
    /\ UNCHANGED <<cmd, meta, err, data, arg, dirs, snap, confirmed, statErr, up, usedMap, alloc>>

\* delete(managerMeta, instanceToDelete); writeManagerMeta(managerMeta).
DeleteEntry(p) ==
    /\ pc[p] = "d_entry"
    /\ Persist(p, MapDelete(meta[p], arg[p].name), TRUE)
    /\ LocalStep
    /\ UNCHANGED <<dirs, statErr, up>>

\* One step of deleteInstance after its read of the registry.
DeleteStep(p) ==
    \/ DeleteNothing(p)
    \/ DeleteCancel(p)
    \/ \E n \in Names : DeleteConfirm(p, n)
    \/ DeleteDirMissing(p)
    \/ DeleteTeardown(p)
    \/ DeleteTeardownFail(p)
    \/ DeleteRemoveDir(p)
    \/ DeleteRemoveDirFail(p)
    \/ DeleteEntry(p)

\* --------------------------------------------------------- createInstance
\* fullInstanceName for the instance whose registry key is n: the key is
\* filepath.Base(fullInstanceName).
InstanceDir(n) == "/sites/" \o n

\* The range the WordPress port is searched in, 11000 and up.
WordPressPortLo == 11000
WordPressPorts == WordPressPortLo..(WordPressPortLo + PortSpan)

\* usedPorts as createInstance builds it from the registry it read.
RegistryPorts(m) ==
    {m.val[n].WordPressPort : n \in {k \in m.keys : m.val[k].WordPressPort > 0}}

\* The ports a findAvailablePort(lo, hi, used) call can return: in the
\* range, not in used, and free on the host when probed.
FindAvailable(range, used) == {port \in range : port \notin used /\ port \notin busy}

InvokeCreate(p) == Invoke(p, "create", NoArg)

\* createInstance from its first readManagerMeta to the end of its prompts:
\* usedPorts is built from the mapping read (empty when the read failed) and
\* the instance is named n.
CreateNamed(p, n) ==
    /\ pc[p] = "r_ret" /\ cmd[p] = "create" /\ arg[p].name = ""
    /\ usedMap' = [usedMap EXCEPT ![p] =
                     IF err[p] = "nil" THEN RegistryPorts(meta[p]) ELSE {}]
    /\ arg' = [arg EXCEPT ![p] = [name |-> n, rec |-> ZeroMeta]]
    /\ meta' = [meta EXCEPT ![p] = EmptyMap]
    /\ data' = [data EXCEPT ![p] = <<>>]
    /\ err' = [err EXCEPT ![p] = "none"]
    /\ pc' = [pc EXCEPT ![p] = "c_ports"]
    /\ LocalStep
    /\ UNCHANGED <<cmd, dirs, snap, warned, confirmed, statErr, up, alloc>>

\* The name is typed in: the input is accepted only when os.Stat says the
\* target directory does not exist.
CreateName(p, n) ==
    /\ Stat(InstanceDir(n)) = "notexist"
    /\ CreateNamed(p, n)

\* The name is left empty: generateRandomName() supplies it and the
\* validation returns without looking at the target directory.
CreateRandomName(p, n) == CreateNamed(p, n)

\* A prompt is cancelled, or a configured base directory is unusable:
\* return.
CreateCancel(p) ==
    /\ pc[p] = "r_ret" /\ cmd[p] = "create" /\ arg[p].name = ""
    /\ err' = [err EXCEPT ![p] = "none"]
    /\ pc' = [pc EXCEPT ![p] = "c_end"]
    /\ LocalStep
    /\ UNCHANGED <<cmd, meta, data, toolVars>>

\* The port searches succeed ("Using Generated Defaults"): wordpressPort is
\* what findAvailablePort(11000, ..., usedPorts) returned.
CreateAllocate(p, port) ==
    /\ pc[p] = "c_ports"
    /\ port \in FindAvailable(WordPressPorts, usedMap[p])
    /\ arg' = [arg EXCEPT ![p].rec = [ZeroMeta EXCEPT !.WordPressPort = port]]
    /\ alloc' = [alloc EXCEPT ![p] = Append(@, port)]
    /\ pc' = [pc EXCEPT ![p] = "c_files"]
    /\ LocalStep
    /\ UNCHANGED <<cmd, meta, err, data, dirs, snap, warned, confirmed, statErr, up, usedMap>>

\* os.RemoveAll(fullInstanceName) on a failure path.
RemoveAll(p) ==
    /\ dirs' = dirs \ {InstanceDir(arg[p].name)}
    /\ statErr' = statErr \ {InstanceDir(arg[p].name)}
    /\ up' = up

\* A port search returns an error: os.RemoveAll(fullInstanceName); return.
CreateAllocateFail(p) ==
    /\ pc[p] = "c_ports"
    /\ RemoveAll(p)
    /\ pc' = [pc EXCEPT ![p] = "c_end"]
    /\ LocalStep
    /\ UNCHANGED <<cmd, meta, err, data, arg, snap, warned, confirmed, usedMap, alloc>>

\* os.MkdirAll, the template copy, .env and Caddyfile, and the local marker
\* file written from localMeta all succeed.
CreateFiles(p) ==
    /\ pc[p] = "c_files"
    /\ Stat(InstanceDir(arg[p].name)) # "error"
    /\ dirs' = dirs \cup {InstanceDir(arg[p].name)}
    /\ arg' = [arg EXCEPT ![p].rec =
                 InstanceMeta(InstanceDir(arg[p].name), arg[p].rec.WordPressPort, "Stopped")]
    /\ pc' = [pc EXCEPT ![p] = "r_read"]
    /\ LocalStep
    /\ UNCHANGED <<cmd, meta, err, data, snap, warned, confirmed, statErr, up, usedMap, alloc>>

\* os.MkdirAll fails: return (nothing is removed).
CreateMkdirFail(p) ==
    /\ pc[p] = "c_files"
    /\ pc' = [pc EXCEPT ![p] = "c_end"]
    /\ LocalStep
    /\ UNCHANGED <<cmd, meta, err, data, toolVars>>

\* The failure path registering what there is of the instance before it
\* returns.
CreateFilesFail_Register(p) ==
    /\ pc[p] = "c_files"
    /\ RemoveAll(p)
    /\ Persist(p, MapPut(meta[p], arg[p].name, arg[p].rec), FALSE)
    /\ LocalStep

\* The template copy, the .env preparation or the local marker write fails:
\* os.RemoveAll(fullInstanceName); return.
CreateFilesFail(p) ==
    /\ pc[p] = "c_files"
    /\ RemoveAll(p)
    /\ pc' = [pc EXCEPT ![p] = "c_end"]
    /\ LocalStep
    /\ UNCHANGED <<cmd, meta, err, data, arg, snap, warned, confirmed, usedMap, alloc>>

\* The second readManagerMeta returned nil:
\* currentManagerMeta[instanceKey] = localMeta; writeManagerMeta.  No prompt
\* comes before it.
CreateRegister(p) ==
    /\ pc[p] = "r_ret" /\ cmd[p] = "create" /\ arg[p].name # ""
    /\ err[p] = "nil"
    /\ Persist(p, MapPut(meta[p], arg[p].name, arg[p].rec), FALSE)
    /\ LocalStep
    /\ UNCHANGED <<dirs, statErr, up>>

\* The second readManagerMeta failed: "Instance created but not registered
\* centrally"; createInstance goes on.
CreateReadFailed(p) ==
    /\ pc[p] = "r_ret" /\ cmd[p] = "create" /\ arg[p].name # ""
    /\ err[p] # "nil"
    /\ pc' = [pc EXCEPT ![p] = "c_compose"]
    /\ LocalStep
    /\ UNCHANGED <<cmd, meta, err, data, toolVars>>

\* writeManagerMeta returned, with an error ("central registration
\* failed") or without: createInstance goes on to promptAndStartInstance.
CreateWritten(p) ==
    /\ pc[p] = "w_ret" /\ cmd[p] = "create"
    /\ pc' = [pc EXCEPT ![p] = "c_compose"]
    /\ LocalStep
    /\ UNCHANGED <<cmd, meta, err, data, toolVars>>

\* os.ReadFile(docker-compose.yml) fails, or the patched file cannot be
\* written: os.RemoveAll(fullInstanceName); return.
CreateComposeFail(p) ==
    /\ pc[p] = "c_compose"
    /\ RemoveAll(p)
    /\ pc' = [pc EXCEPT ![p] = "c_end"]
    /\ LocalStep
    /\ UNCHANGED <<cmd, meta, err, data, arg, snap, warned, confirmed, usedMap, alloc>>

\* docker-compose.yml read and, where needed, patched: createInstance
\* returns.
CreateDone(p) ==
    /\ pc[p] = "c_compose"
    /\ pc' = [pc EXCEPT ![p] = "c_end"]
    /\ LocalStep
    /\ UNCHANGED <<cmd, meta, err, data, toolVars>>

\* createInstance has returned: the process exits.
CreateEnd(p) ==
    /\ pc[p] = "c_end"
    /\ Exit(p)
    /\ LocalStep
    /\ UNCHANGED <<dirs, statErr, up>>

\* One step of createInstance outside its readManagerMeta and
\* writeManagerMeta calls.
CreateStep(p) ==
    \/ \E n \in Names : CreateName(p, n)
    \/ \E n \in Names : CreateRandomName(p, n)
    \/ CreateCancel(p)
    \/ \E port \in WordPressPorts : CreateAllocate(p, port)
    \/ CreateAllocateFail(p)
    \/ CreateFiles(p)
    \/ CreateMkdirFail(p)
    \/ CreateFilesFail(p)
    \/ CreateRegister(p)
    \/ CreateReadFailed(p)
    \/ CreateWritten(p)
    \/ CreateComposeFail(p)
    \/ CreateDone(p)
    \/ CreateEnd(p)

\* ------------------------------------------------ one invocation at a time
\* A registry entry left by an earlier run, its fields gone stale.
OldMeta(dir) ==
    [Directory |-> dir, CreationDate |-> "Unknown", WordPressVersion |-> "5.9",
     DBVersion |-> "10", WordPressPort |-> 8080, Status |-> "Directory Missing"]

\* The mappings an earlier run may have left in the registry file.
SeqMetas ==
    UNION {{[keys |-> ks, val |-> [n \in Names |-> IF n \in ks THEN f[n] ELSE ZeroMeta]] :
              f \in [ks -> {OldMeta(d) : d \in Dirs}]} : ks \in SUBSET Names}

\* What registerInstance may be given: any name for any instance directory.
SeqRegisterInputs ==
    {[name |-> n, rec |-> InstanceMeta(d, 11002, "Unknown")] : n \in Names, d \in Dirs}

\* The one process whose invocations follow each other.
SeqProcs == {1}

\* No registry file, an empty one, a malformed one, or one left by earlier
\* runs; any of the instance directories may be missing or inaccessible.
InitSeq ==
    /\ registry \in {NoFile, FileOf(<<>>), FileOf(<<TokOpen>>)}
                      \cup {FileOf(MarshalIndent(m)) : m \in SeqMetas}
    /\ lockFiles = {}
    /\ dirs \in SUBSET Dirs
    /\ statErr \in SUBSET Dirs
    /\ up = {}
    /\ InitLocals
    /\ InitNoPorts

NextSeq ==
    \E p \in SeqProcs :
        \/ \E a \in SeqRegisterInputs : InvokeRegister(p, a)
        \/ \E n \in Names : InvokeUnregister(p, n)
        \/ InvokeUnregisterNoName(p)
        \/ UnregisterUsage(p)
        \/ InvokePrune(p)
        \/ InvokeDelete(p)
        \/ InvokeCreate(p)
        \/ ReadStep(p)
        \/ ReadFailed(p)
        \/ RegisterAccept(p)
        \/ RegisterCancel(p)
        \/ UnregisterNotFound(p)
        \/ UnregisterConfirm(p)
        \/ UnregisterCancel(p)
        \/ PruneNothing(p)
        \/ PruneConfirm(p)
        \/ PruneCancel(p)
        \/ DeleteStep(p)
        \/ CreateStep(p)
        \/ WriteStep(p)
        \/ CommandEnd(p)

\* The commands that write the registry, one invocation after the other.
SpecSeq == InitSeq /\ [][NextSeq]_vars

\* -------------------------------------------------------- updateStatuses
\* newStatus for a record: "Directory Missing" when os.Stat says the
\* directory does not exist, otherwise what docker compose ps run in the
\* directory reports.
NewStatus(r) ==
    IF Stat(r.Directory) = "notexist" THEN "Directory Missing"
    ELSE IF Stat(r.Directory) = "nil" /\ r.Directory \in up THEN "Running"
    ELSE "Stopped"

\* The loop rebuilding each record from its directory and port.
Refreshed_Rebuilt(m) ==
    [keys |-> m.keys,
     val |-> [n \in Names |->
                IF n \in m.keys
                    THEN InstanceMeta(m.val[n].Directory, m.val[n].WordPressPort,
                                      NewStatus(m.val[n]))
                    ELSE m.val[n]]]

\* managerMeta after the loop over its entries: meta.Status = newStatus
\* for every entry whose status differs.
Refreshed(m) ==
    [keys |-> m.keys,
     val |-> [n \in Names |->
                IF n \in m.keys
                    THEN [m.val[n] EXCEPT !.Status = NewStatus(m.val[n])]
                    ELSE m.val[n]]]

InvokeUpdate(p) == Invoke(p, "update", NoArg)

\* updateStatuses: len(managerMeta) == 0, "No Instances Found".
UpdateNothing(p) ==
    /\ pc[p] = "r_ret" /\ cmd[p] = "update" /\ err[p] = "nil"
    /\ meta[p].keys = {}
    /\ Exit(p)
    /\ LocalStep
    /\ UNCHANGED <<dirs, statErr, up>>

\* updateStatuses: somethingChanged is false, "Statuses Up-to-Date".
UpdateUpToDate(p) ==
    /\ pc[p] = "r_ret" /\ cmd[p] = "update" /\ err[p] = "nil"
    /\ meta[p].keys # {}
    /\ Refreshed(meta[p]) = meta[p]
    /\ Exit(p)
    /\ LocalStep
    /\ UNCHANGED <<dirs, statErr, up>>

\* updateStatuses: somethingChanged, writeManagerMeta(managerMeta).
UpdateWrite(p) ==
    /\ pc[p] = "r_ret" /\ cmd[p] = "update" /\ err[p] = "nil"
    /\ Refreshed(meta[p]) # meta[p]
    /\ Persist(p, Refreshed(meta[p]), FALSE)
    /\ LocalStep
    /\ UNCHANGED <<dirs, statErr, up>>

\* The registries updateStatuses may find: left by earlier runs, with
\* statuses that are stale or current.
UpdateMetas == SeqMetas \cup {MetaA, MetaAB}

InitUpdate ==
    /\ registry \in {NoFile, FileOf(<<TokOpen>>)}
                      \cup {FileOf(MarshalIndent(m)) : m \in UpdateMetas}
    /\ lockFiles = {}
    /\ dirs \in SUBSET Dirs
    /\ statErr \in SUBSET Dirs
    /\ up \in SUBSET Dirs
    /\ InitLocals
    /\ InitNoPorts

NextUpdate ==
    \E p \in SeqProcs :
        \/ InvokeUpdate(p)
        \/ ReadStep(p)
        \/ ReadFailed(p)
        \/ UpdateNothing(p)
        \/ UpdateUpToDate(p)
        \/ UpdateWrite(p)
        \/ WriteStep(p)
        \/ CommandEnd(p)

\* updateStatuses, one invocation after the other.
SpecUpdate == InitUpdate /\ [][NextUpdate]_vars

\* ------------------------------------------------- deleteInstance alone
\* A registry left by earlier runs; any instance directory may be missing
\* or inaccessible, and any instance may have its containers up.
InitDelete ==
    /\ registry \in {FileOf(MarshalIndent(m)) : m \in SeqMetas}
    /\ lockFiles = {}
    /\ dirs \in SUBSET Dirs
    /\ statErr \in SUBSET Dirs
    /\ up \in SUBSET Dirs
    /\ InitLocals
    /\ InitNoPorts

NextDelete ==
    \E p \in SeqProcs :
        \/ InvokeDelete(p)
        \/ ReadStep(p)
        \/ ReadFailed(p)
        \/ DeleteStep(p)
        \/ WriteStep(p)
        \/ CommandEnd(p)

\* deleteInstance, one invocation after the other.
SpecDelete == InitDelete /\ [][NextDelete]_vars

\* ------------------------------------------- createInstance side by side
\* No instance yet: no registry file, no instance directory, no port bound.
InitCreate ==
    /\ registry = NoFile
    /\ lockFiles = {}
    /\ dirs = {}
    /\ statErr = {}
    /\ up = {}
    /\ InitLocals
    /\ InitNoPorts

\* Each of the two processes runs createInstance once, for an instance
\* name of its own; the registry file can be read whenever it is there.
NextCreate ==
    \E p \in Invokers :
        \/ cmd[p] = "none" /\ InvokeCreate(p)
        \/ ReadManagerMeta(p)
        \/ CreateName(p, NameOrder[p])
        \/ CreateCancel(p)
        \/ \E port \in WordPressPorts : CreateAllocate(p, port)
        \/ CreateAllocateFail(p)
        \/ CreateFiles(p)
        \/ CreateMkdirFail(p)
        \/ CreateFilesFail(p)
        \/ CreateRegister(p)
        \/ CreateWritten(p)
        \/ CreateComposeFail(p)
        \/ CreateDone(p)
        \/ WriteStep(p)

\* Two createInstance invocations, one after the other or overlapping.
SpecCreate == InitCreate /\ [][NextCreate]_vars

\* ------------------------------------------------------ findAvailablePort
\* The attempt budget one too large (the loop run with i <= maxAttempts).
MaxAttempts_PlusOne(s) == (s.endPort - s.startPort + 1) * 2 + 1

\* maxAttempts := (endPort - startPort + 1) * 2
MaxAttempts(s) == (s.endPort - s.startPort + 1) * 2

\* rand.Int drawing from one value too many.
RandInts_Inclusive(s) == 0..(s.endPort - s.startPort + 1)

\* rand.Int(rand.Reader, big.NewInt(endPort-startPort+1)): 0 <= r < n.
RandInts(s) == 0..(s.endPort - s.startPort)

\* port := int(portBig.Int64()) + startPort
PortOfDraw(s, r) == r + s.startPort

\* The usedPorts lookup left out.
IsUsed_Never(s, port) == FALSE

\* _, used := usedPorts[port]
IsUsed(s, port) == port \in s.usedPorts

\* isPortAvailable: net.Listen("tcp", ":port") succeeds, and the listener
\* is closed again.
isPortAvailable(port) == port \notin busy

\* The call findAvailablePort(startPort, endPort, usedPorts) up to its loop:
\* an inverted range returns "invalid port range" at once.
FindStart(startPort, endPort, usedPorts) ==
    [startPort |-> startPort, endPort |-> endPort, usedPorts |-> usedPorts,
     i |-> 0, port |-> 0,
     err |-> IF startPort > endPort THEN "invalid port range" ELSE "none",
     pc |-> IF startPort > endPort THEN "done" ELSE "loop"]

\* The loop condition i < maxAttempts holds.
InLoop(s) == s.pc = "loop" /\ s.i < MaxAttempts(s)

\* rand.Int returns an error: continue.
DrawError ==
    /\ InLoop(search)
    /\ search' = [search EXCEPT !.i = @ + 1]
    /\ UNCHANGED <<busy, used0, probeFailed>>
    /\ UNCHANGED nonPortVars

\* The drawn port is in usedPorts: continue.
DrawUsed(r) ==
    /\ InLoop(search)
    /\ IsUsed(search, PortOfDraw(search, r))
    /\ search' = [search EXCEPT !.i = @ + 1]
    /\ UNCHANGED <<busy, used0, probeFailed>>
    /\ UNCHANGED nonPortVars

\* The drawn port is not in usedPorts and the bind probe succeeds: return it.
DrawAvailable(r) ==
    /\ InLoop(search)
    /\ ~IsUsed(search, PortOfDraw(search, r))
    /\ isPortAvailable(PortOfDraw(search, r))
    /\ search' = [search EXCEPT !.port = PortOfDraw(search, r), !.pc = "done"]
    /\ UNCHANGED <<busy, used0, probeFailed>>
    /\ UNCHANGED nonPortVars

\* The bind probe fails: usedPorts[port] = true, next attempt.
DrawBusy(r) ==
    /\ InLoop(search)
    /\ ~IsUsed(search, PortOfDraw(search, r))
    /\ ~isPortAvailable(PortOfDraw(search, r))
    /\ search' = [search EXCEPT !.usedPorts = @ \cup {PortOfDraw(search, r)},
                                !.i = @ + 1]
    /\ probeFailed' = probeFailed \cup {PortOfDraw(search, r)}
    /\ UNCHANGED <<busy, used0>>
    /\ UNCHANGED nonPortVars

\* The attempts are used up: return the "could not find an available port"
\* error.
AttemptsExhausted ==
    /\ search.pc = "loop"
    /\ search.i >= MaxAttempts(search)
    /\ search' = [search EXCEPT !.err = "could not find an available port",
                                !.pc = "done"]
    /\ UNCHANGED <<busy, used0, probeFailed>>
    /\ UNCHANGED nonPortVars

\* Some other process on the host binds or releases a port while the search
\* runs.
HostBindsOrReleases(port) ==
    /\ search.pc = "loop"
    /\ busy' = IF port \in busy THEN busy \ {port} ELSE busy \cup {port}
    /\ UNCHANGED <<search, used0, probeFailed>>
    /\ UNCHANGED nonPortVars

\* findAvailablePort called with any range, any usedPorts and any ports
\* bound on the host.
InitPort ==
    /\ registry = NoFile
    /\ lockFiles = {}
    /\ dirs = Dirs
    /\ statErr = {}
    /\ up = {}
    /\ InitLocals
    /\ \E sp \in Ports, ep \in Ports, used \in SUBSET Ports :
          /\ search = FindStart(sp, ep, used)
          /\ used0 = used
    /\ busy \in SUBSET Ports
    /\ probeFailed = {}

NextPort ==
    \/ DrawError
    \/ \E r \in RandInts(search) : DrawUsed(r)
    \/ \E r \in RandInts(search) : DrawAvailable(r)
    \/ \E r \in RandInts(search) : DrawBusy(r)
    \/ AttemptsExhausted
    \/ \E port \in Ports : HostBindsOrReleases(port)

SpecPort == InitPort /\ [][NextPort]_vars

\* One iteration of the loop of findAvailablePort, or its return after the
\* loop.
SearchStep ==
    \/ DrawError
    \/ \E r \in RandInts(search) : DrawUsed(r)
    \/ \E r \in RandInts(search) : DrawAvailable(r)
    \/ \E r \in RandInts(search) : DrawBusy(r)
    \/ AttemptsExhausted

\* findAvailablePort in a process that keeps running: the loop has no
\* blocking call, so an iteration that can be taken is taken, whatever the
\* other processes of the host do with their ports.
SpecPortLive == InitPort /\ [][NextPort]_vars /\ WF_vars(SearchStep)

\* The call findAvailablePort(8000, 8005, {8000, 8001}) on a host where
\* 8002 and 8003 are bound and stay bound.
InitScenario ==
    /\ registry = NoFile
    /\ lockFiles = {}
    /\ dirs = Dirs
    /\ statErr = {}
    /\ up = {}
    /\ InitLocals
    /\ search = FindStart(PortLo, PortLo + 5, {PortLo, PortLo + 1})
    /\ used0 = {PortLo, PortLo + 1}
    /\ busy = {PortLo + 2, PortLo + 3}
    /\ probeFailed = {}

\* The loop when rand.Int never fails: every iteration draws a port.
NextScenario ==
    \/ \E r \in RandInts(search) : DrawUsed(r)
    \/ \E r \in RandInts(search) : DrawAvailable(r)
    \/ \E r \in RandInts(search) : DrawBusy(r)
    \/ AttemptsExhausted

SpecScenario == InitScenario /\ [][NextScenario]_vars

\* ------------------------------------ the port searches of one create
\* The range of the Mailpit SMTP search, 10000 and up.
MailpitSMTPPortLo == 10000
MailpitSMTPPorts == MailpitSMTPPortLo..(MailpitSMTPPortLo + PortSpan)

\* The range of the Mailpit Web search, 8000 and up.
MailpitWebPorts == Ports

\* The range of the Adminer search: it starts inside the Mailpit Web range
\* (8081 in 8000..8999) and ends where that range ends.
AdminerPortLo == PortLo + 1
AdminerPorts == AdminerPortLo..(PortLo + PortSpan)

\* The ranges in the order createInstance searches them.
SearchRanges == <<MailpitSMTPPorts, MailpitWebPorts, AdminerPorts, WordPressPorts>>

\* What a findAvailablePort call over range can have added to usedPorts
\* when it returns: ports of the range it drew and found bound on the host.
ProbeFailures(range) == SUBSET (range \cap busy)

\* One of the three searches before the prompts about the site,
\* findAvailablePort(lo, hi, usedPorts), returns port: the port goes to its
\* variable and usedPorts gains only the ports found bound.
CreateAllocateService(p, port) ==
    /\ pc[p] = "c_ports"
    /\ Len(alloc[p]) < 3
    /\ port \in FindAvailable(SearchRanges[Len(alloc[p]) + 1], usedMap[p])
    /\ alloc' = [alloc EXCEPT ![p] = Append(@, port)]
    /\ \E failed \in ProbeFailures(SearchRanges[Len(alloc[p]) + 1]) :
          usedMap' = [usedMap EXCEPT ![p] = @ \cup failed]
    /\ LocalStep
    /\ UNCHANGED <<pc, cmd, meta, err, data, arg, dirs, snap, warned, confirmed, statErr, up>>

\* The WordPress search, made once the three service ports are chosen.
CreateAllocateWordPress(p, port) ==
    /\ Len(alloc[p]) = 3
    /\ CreateAllocate(p, port)

\* A host with some ports bound by other programs, and a registry that is
\* missing or holds two instances.
InitAlloc ==
    /\ registry \in {NoFile, FileOf(MarshalIndent(MetaAB))}
    /\ lockFiles = {}
    /\ dirs = {}
    /\ statErr = {}
    /\ up = {}
    /\ InitLocals
    /\ search = NoSearch
    /\ busy \in SUBSET {MailpitSMTPPortLo, PortLo, AdminerPortLo}
    /\ used0 = {}
    /\ probeFailed = {}

NextAlloc ==
    \E p \in SeqProcs :
        \/ InvokeCreate(p)
        \/ ReadStep(p)
        \/ \E n \in Names : CreateName(p, n)
        \/ CreateCancel(p)
        \/ \E port \in Ports \cup MailpitSMTPPorts : CreateAllocateService(p, port)
        \/ \E port \in WordPressPorts : CreateAllocateWordPress(p, port)
        \/ CreateAllocateFail(p)
        \/ CreateMkdirFail(p)
        \/ CreateEnd(p)

\* One createInstance at a time, from its start to the end of its port
\* searches.
SpecAlloc == InitAlloc /\ [][NextAlloc]_vars

\* ------------------------------------------- write, then read it back
\* The mappings handed to writeManagerMeta: empty, of one or two records,
\* and one whose record lives under a directory named in Latin-1.
RoundMetas ==
    {EmptyMap, MetaA, MetaAB,
     MapPut(EmptyMap, "b", OldMeta("/sites/b")),
     MapPut(MetaA, "b", InstanceMeta(Latin1Dir, 11001, "Stopped"))}

\* writeManagerMeta(m) returned nil and the same process now calls
\* readManagerMeta; snap keeps the m that was written.
ReadBack(p) ==
    /\ pc[p] = "w_ret"
    /\ cmd[p] = "write"
    /\ err[p] = "nil"
    /\ snap' = [snap EXCEPT ![p] = meta[p]]
    /\ cmd' = [cmd EXCEPT ![p] = "readback"]
    /\ pc' = [pc EXCEPT ![p] = "r_read"]
    /\ UNCHANGED <<registry, lockFiles, temp, meta, err, data, locked, before>>
    /\ UNCHANGED <<lastCall, portVars, arg, dirs, warned, confirmed, statErr, up, usedMap, alloc>>

\* The process is done with what it read back.
ReadBackEnd(p) ==
    /\ pc[p] = "r_ret"
    /\ cmd[p] = "readback"
    /\ Exit(p)
    /\ UNCHANGED <<registry, lockFiles, temp, locked, before>>
    /\ UNCHANGED <<lastCall, portVars, dirs, statErr, up>>

InitRound ==
    /\ registry \in {NoFile, FileOf(<<TokOpen>>), FileOf(MarshalIndent(MetaAB))}
    /\ lockFiles = {}
    /\ dirs = Dirs
    /\ statErr = {}
    /\ up = {}
    /\ InitLocals
    /\ InitNoPorts

NextRound ==
    \E p \in SeqProcs :
        \/ \E m \in RoundMetas : CallWrite(p, m)
        \/ WriteStep(p)
        \/ Return(p)
        \/ ReadBack(p)
        \/ ReadStep(p)
        \/ ReadBackEnd(p)

\* One process writing a mapping and reading it back, nothing else
\* touching the registry in between.
SpecRound == InitRound /\ [][NextRound]_vars

\* ------------------------------------------------------------- properties
\* The critical section of writeManagerMeta: after Lock, up to Unlock.
CriticalPCs == WritePCs \ {"w_lock"}

\* A file that is absent or holds one complete serialization of a mapping.
Complete(f) ==
    \/ ~f.exists
    \/ /\ WellFormed(f.data)
       /\ MarshalIndent(Unmarshal(f.data)) = f.data

\* C1: under every interleaving of writeManagerMeta and readManagerMeta
\* calls, with writers killed at any step, the registry file is always
\* absent or complete, it only ever changes to the complete serialization of
\* the mapping passed to the call that renames, and what a reader got from
\* ReadFile is a complete file.
C1_RegistryNeverPartial ==
    /\ [](/\ Complete(registry)
          /\ \A p \in Procs :
                pc[p] = "r_ret" => (data[p] = <<>> \/ Complete(FileOf(data[p]))))
    /\ [][registry' # registry =>
             \E p \in Procs : /\ pc[p] = "w_rename"
                               /\ registry' = FileOf(MarshalIndent(meta[p]))]_vars

\* C1 witness: a writer was killed with a half-written temp file, and a
\* reader read the registry another call had replaced.
C1_Witness ==
    \E p, q \in Procs :
        /\ pc[p] = "crashed"
        /\ temp[p].exists
        /\ Len(temp[p].data) > 0
        /\ ~WellFormed(temp[p].data)
        /\ pc[q] = "r_ret"
        /\ data[q] = MarshalIndent(MetaAB)
        /\ registry = FileOf(MarshalIndent(MetaAB))

\* C2: a writeManagerMeta call that fails at lock acquisition, marshal,
\* temp-file creation, write, close or rename leaves the registry file as it
\* was, returns an error and leaves no temp file; a call killed before its
\* rename leaves the registry file as it was.
C2_FailedWriteKeepsRegistry ==
    [][\A p \in Procs :
        /\ (pc[p] \in WritePCs /\ err[p] = "none" /\ err'[p] \notin {"none", "nil"})
              => registry' = registry
        /\ (pc[p] \in WritePCs /\ pc'[p] = "w_ret" /\ err'[p] # "nil")
              => /\ registry' = (IF locked[p] THEN before[p] ELSE registry)
                 /\ ~temp'[p].exists
        /\ (pc[p] \in WritePCs /\ pc'[p] = "w_ret" /\ err'[p] = "nil")
              => registry' = FileOf(MarshalIndent(meta[p]))
        /\ (pc[p] \in {"w_marshal", "w_create", "w_write", "w_close", "w_rename"}
               /\ pc'[p] = "crashed")
              => registry' = before[p]]_vars

\* C2 witness: the rename failed after the temp file was written in full;
\* the call returned the error, the old registry is in place, no temp file.
C2_Witness ==
    \E p \in Procs :
        /\ pc[p] = "w_ret"
        /\ err[p] = "rename"
        /\ meta[p] = MetaAB
        /\ registry = FileOf(MarshalIndent(MetaA))
        /\ ~temp[p].exists

\* C3: Lock() on a path whose sentinel exists fails and changes nothing;
\* Lock() on a path with no sentinel (none yet, or removed by Unlock)
\* succeeds and creates it; Unlock() removes the sentinel, and when there is
\* none it changes no file.
C3_FileLockContract ==
    [][\A p \in Procs :
        lastCall'[p] # lastCall[p] =>
          LET c == lastCall'[p] IN
            /\ (c.op = "lock" /\ c.path \in lockFiles)
                  => (c.err /\ lockFiles' = lockFiles)
            /\ (c.op = "lock" /\ c.path \notin lockFiles)
                  => (~c.err /\ lockFiles' = lockFiles \cup {c.path})
            /\ (c.op = "unlock" /\ c.path \in lockFiles)
                  => (~c.err /\ lockFiles' = lockFiles \ {c.path})
            /\ (c.op = "unlock" /\ c.path \notin lockFiles)
                  => lockFiles' = lockFiles]_vars

\* C3 witness: one process's Unlock found no sentinel, and another's Lock
\* was refused because the sentinel is held.
C3_Witness ==
    \E p, q \in Procs :
        /\ lastCall[p].op = "unlock" /\ lastCall[p].path = MetaLockPath /\ lastCall[p].err
        /\ lastCall[q].op = "lock" /\ lastCall[q].path = MetaLockPath /\ lastCall[q].err
        /\ MetaLockPath \in lockFiles

\* C4: at most one process is between a successful Lock and its Unlock, and
\* every process in the critical section (marshal, temp write, rename) is
\* that one.
C4_MutualExclusion ==
    /\ Cardinality({p \in Procs : locked[p]}) <= 1
    /\ \A p \in Procs : pc[p] \in CriticalPCs => locked[p]
    /\ (\E p \in Procs : locked[p]) => MetaLockPath \in lockFiles

\* C4 witness: one process is about to rename while another was refused
\* the lock.
C4_Witness ==
    \E p, q \in Procs :
        /\ p # q
        /\ pc[p] = "w_rename"
        /\ locked[p]
        /\ pc[q] = "w_ret"
        /\ err[q] = "lock"

\* C5: a writeManagerMeta call that acquired the sentinel has released it
\* when it returns, on the success path and on every error path, and (no
\* process being killed) an acquired sentinel is eventually released.
C5_LockAlwaysReleased ==
    /\ [](\A p \in Procs : pc[p] = "w_ret" => ~locked[p])
    /\ [][\A p \in Procs :
            (locked[p] /\ pc'[p] = "w_ret") => MetaLockPath \notin lockFiles']_vars
    /\ \A p \in Procs : locked[p] ~> ~locked[p]

\* C5 witness: a call whose temp-file write failed has returned and the
\* sentinel is gone.
C5_Witness ==
    \E p \in Procs :
        /\ pc[p] = "w_ret"
        /\ err[p] = "write"
        /\ ~locked[p]
        /\ MetaLockPath \notin lockFiles

\* C6: a writeManagerMeta call that finds the sentinel present returns the
\* lock error in that same step: no retry, no change to the registry file,
\* no temp file, and the other process's sentinel stays.
C6_BusyLockFailsFast ==
    [][\A p \in Procs :
        (/\ pc[p] = "w_lock"
         /\ MetaLockPath \in lockFiles
         /\ pc'[p] \notin {"w_lock", "crashed"})
        => /\ pc'[p] = "w_ret"
           /\ err'[p] = "lock"
           /\ ~locked'[p]
           /\ registry' = registry
           /\ temp' = temp
           /\ lockFiles' = lockFiles]_vars

\* C6 witness: a call returned the lock error while the holder is in the
\* middle of its temp-file write.
C6_Witness ==
    \E p, q \in Procs :
        /\ p # q
        /\ pc[p] = "w_ret"
        /\ err[p] = "lock"
        /\ ~temp[p].exists
        /\ pc[q] = "w_write"
        /\ locked[q]
        /\ MetaLockPath \in lockFiles

\* C7: what a register, unregister or prune invocation persists is computed
\* from the registry it read before its prompt and nothing else: its rename
\* replaces whatever other invocations persisted since that read, so their
\* changes are lost.
C7_StaleWriteOverwrites ==
    [][\A q \in Procs :
        (/\ cmd[q] \in {"register", "unregister", "prune"}
         /\ pc[q] = "w_rename"
         /\ pc'[q] = "w_cleanup"
         /\ err'[q] = "nil")
        => registry' = FileOf(MarshalIndent(ToolApply(cmd[q], arg[q], snap[q])))]_vars

\* C7 witness (the lost update): registering a, and unregistering or
\* pruning b, both read the same registry and both persisted with a nil
\* error, and the registry does not hold a.
C7_Witness ==
    \E p, q \in Invokers :
        /\ p # q
        /\ cmd[p] = "register" /\ arg[p].name = "a"
        /\ pc[p] = "w_ret" /\ err[p] = "nil"
        /\ cmd[q] \in {"unregister", "prune"}
        /\ pc[q] = "w_ret" /\ err[q] = "nil"
        /\ snap[p] = snap[q]
        /\ "a" \notin snap[p].keys
        /\ "b" \in snap[p].keys
        /\ registry.exists
        /\ "a" \notin Unmarshal(registry.data).keys
        /\ "b" \notin Unmarshal(registry.data).keys

\* C8: the registry file is only ever changed by a step of a process that
\* holds the sentinel.
C8_WritesOnlyUnderLock ==
    [][registry' # registry =>
          \E p \in Procs : locked[p] /\ pc[p] \in CriticalPCs /\ pc'[p] # pc[p]]_vars

\* The findAvailablePort call has returned a port and a nil error.
FoundPort == search.pc = "done" /\ search.err = "none"

\* C9: a findAvailablePort call that returns without error returns a port
\* with startPort <= port <= endPort.
C9_PortInRange ==
    FoundPort => (search.startPort <= search.port /\ search.port <= search.endPort)

\* C9 witness: the call returned the upper bound of a range of several
\* ports.
C9_Witness ==
    /\ FoundPort
    /\ search.startPort < search.endPort
    /\ search.port = search.endPort

\* C10: the port a findAvailablePort call returns is not in the usedPorts
\* passed in, is not a port whose bind probe failed earlier in the call, and
\* passed the bind probe in the step that returned it.
C10_PortNotClaimed ==
    /\ [](FoundPort => (search.port \notin used0 /\ search.port \notin probeFailed))
    /\ [][(search.pc = "loop" /\ search'.pc = "done" /\ search'.err = "none")
            => search'.port \notin busy]_vars

\* C10 witness: the call returned a port after the probe of another port
\* had failed, with a third port claimed from the start; the port whose
\* probe failed has since been released on the host.
C10_Witness ==
    /\ FoundPort
    /\ used0 # {}
    /\ \E q \in probeFailed : q \notin busy /\ q # search.port
    /\ search.port \notin used0

\* The attempt budget of the call: twice the size of the range.
Budget == 2 * (search.endPort - search.startPort + 1)

\* C11: findAvailablePort always terminates.  With startPort <= endPort it
\* runs at most 2*(endPort-startPort+1) iterations, each with at most one
\* draw, and then returns a port or the "could not find an available port"
\* error; with startPort > endPort it returns "invalid port range" without
\* any draw.
C11_AllocatorTerminates ==
    /\ <>(search.pc = "done")
    /\ [](search.startPort > search.endPort
            => /\ search.pc = "done"
               /\ search.err = "invalid port range"
               /\ search.i = 0 /\ search.port = 0
               /\ search.usedPorts = used0 /\ probeFailed = {})
    /\ [](search.startPort <= search.endPort
            => /\ search.i <= Budget
               /\ (FoundPort => search.i + 1 <= Budget)
               /\ (search.pc = "done" /\ ~FoundPort)
                     => /\ search.err = "could not find an available port"
                        /\ search.i = Budget
                        /\ search.port = 0)
    /\ [][search' # search =>
            /\ search.pc = "loop"
            /\ \/ search'.i = search.i + 1 /\ search'.pc = "loop"
               \/ search'.i = search.i /\ search'.pc = "done"]_vars

\* C11 witness: the call used up its whole budget on a range of several
\* ports and returned the error.
C11_Witness ==
    /\ search.pc = "done"
    /\ search.err = "could not find an available port"
    /\ search.startPort < search.endPort
    /\ search.i = Budget
    /\ probeFailed # {}

\* C12: allocating in [8000,8005] with 8000 and 8001 claimed and 8002 and
\* 8003 bound on the host, findAvailablePort returns 8004 or 8005 and never
\* an error, whatever the draws are.
C12_ScenarioReturnsFreePort ==
    search.pc = "done"
        => /\ search.err = "none"
           /\ search.port \in {PortLo + 4, PortLo + 5}

\* The registry file as a mapping: what is in it when it is well formed.
RegistryMap(f) == IF f.exists /\ WellFormed(f.data) THEN Unmarshal(f.data) ELSE EmptyMap

\* The entries of m whose directory does not exist (and on which os.Stat
\* gives no other error).
Gone(m) == {n \in m.keys : m.val[n].Directory \notin (dirs \cup statErr)}

\* C13: pruneInstances offers for removal, and after a yes removes, exactly
\* the entries whose directory does not exist; an entry whose directory
\* exists or whose os.Stat fails otherwise is kept with every field as it
\* was; the mapping is written by one writeManagerMeta call, after which
\* the command ends; without a yes the registry file is unchanged.
C13_PruneExact ==
    [][\A p \in SeqProcs : cmd[p] = "prune" =>
        /\ ~confirmed'[p] => registry' = registry
        /\ (~confirmed[p] /\ confirmed'[p]) =>
              /\ Gone(meta[p]) # {}
              /\ meta[p] = RegistryMap(registry)
              /\ meta'[p].keys = meta[p].keys \ Gone(meta[p])
        /\ registry' # registry =>
              /\ pc[p] = "w_rename"
              /\ registry.exists /\ WellFormed(registry.data)
              /\ registry'.exists /\ WellFormed(registry'.data)
              /\ LET old == Unmarshal(registry.data)
                     new == Unmarshal(registry'.data) IN
                    /\ new.keys = old.keys \ Gone(old)
                    /\ \A n \in new.keys : new.val[n] = old.val[n]
        /\ pc[p] = "w_ret" => pc'[p] = "idle"]_vars

\* C13 witness: of two stale entries the one whose directory is missing
\* was pruned and the one whose directory cannot be examined was kept.
C13_Witness ==
    \E p \in SeqProcs :
        /\ cmd[p] = "prune" /\ pc[p] = "w_ret" /\ err[p] = "nil"
        /\ snap[p].keys = {"a", "b"}
        /\ snap[p].val["a"] = OldMeta("/sites/a")
        /\ snap[p].val["b"] = OldMeta("/sites/b")
        /\ "/sites/a" \in statErr /\ "/sites/a" \notin dirs
        /\ "/sites/b" \notin dirs \cup statErr
        /\ registry = FileOf(<<TokOpen, TokEntry("a", OldMeta("/sites/a")), TokClose>>)

\* C14: a registerInstance invocation whose name is already a key of the
\* registry, or whose directory is registered under another name, leaves
\* the registry file unchanged unless the user answers the conflict prompt
\* with yes; when it writes, the entry under the chosen name is the new
\* record in every field and all other entries are as they were.
C14_RegisterConflict ==
    [][\A p \in SeqProcs : cmd[p] = "register" =>
        LET old == RegistryMap(registry)
            new == RegistryMap(registry')
            name == arg[p].name
            path == arg[p].rec.Directory IN
          /\ ((\/ name \in old.keys
                \/ \E k \in old.keys \ {name} : old.val[k].Directory = path)
               /\ ~confirmed'[p])
                => registry' = registry
          /\ registry' # registry =>
                /\ pc[p] = "w_rename"
                /\ registry'.exists /\ WellFormed(registry'.data)
                /\ new.keys = old.keys \cup {name}
                /\ new.val[name] = arg[p].rec
                /\ \A k \in old.keys \ {name} : new.val[k] = old.val[k]]_vars

\* C14 witness: the name was registered for another directory and the
\* directory was registered under the other name; the user said yes, and
\* the entry under the name is the new record while the other entry stays.
C14_Witness ==
    \E p \in SeqProcs :
        /\ cmd[p] = "register" /\ pc[p] = "w_ret" /\ err[p] = "nil"
        /\ confirmed[p]
        /\ arg[p] = [name |-> "a", rec |-> InstanceMeta("/sites/a", 11002, "Unknown")]
        /\ snap[p].keys = {"a", "b"}
        /\ snap[p].val["a"] = OldMeta("/sites/b")
        /\ snap[p].val["b"] = OldMeta("/sites/a")
        /\ RegistryMap(registry).val["a"] = arg[p].rec
        /\ RegistryMap(registry).val["b"] = OldMeta("/sites/a")

\* C15: no step of any invocation removes a registry entry, or replaces the
\* record under an existing key, unless the user has answered a
\* confirmation prompt of that invocation with yes.
C15_DestructiveNeedsYes ==
    [][\A p \in SeqProcs :
        LET old == RegistryMap(registry)
            new == RegistryMap(registry') IN
          (\/ \E k \in old.keys : k \notin new.keys
           \/ \E k \in old.keys \cap new.keys : new.val[k] # old.val[k])
            => confirmed[p]]_vars

\* The createInstance invocation of p has returned and the registry holds
\* the entry it wrote.
Registered(p) ==
    /\ cmd[p] = "create" /\ pc[p] = "c_end" /\ err[p] = "nil"
    /\ arg[p].name \in RegistryMap(registry).keys
    /\ RegistryMap(registry).val[arg[p].name] = arg[p].rec

\* C16: two createInstance invocations that both end up registered have
\* been given different WordPress ports, however they interleave.
C16_CreatedPortsDiffer ==
    \A p, q \in Invokers :
        (p # q /\ Registered(p) /\ Registered(q) /\ arg[p].name # arg[q].name)
            => arg[p].rec.WordPressPort # arg[q].rec.WordPressPort

\* C17: a readManagerMeta call changes neither the registry file nor the
\* sentinel nor any temp file.  The only errors it returns are the
\* path-resolution error and the read error of a file that exists, both
\* with a nil mapping.  Otherwise it returns a nil error and, for a missing,
\* an empty or a malformed file, the empty mapping, with the warning
\* printed in the malformed case and in no other.
C17_ReadTolerant ==
    [][\A p \in SeqProcs : (pc[p] = "r_read" /\ pc'[p] = "r_ret") =>
        LET absent == ~registry.exists
            empty == registry.exists /\ Len(registry.data) = 0
            malformed == registry.exists /\ Len(registry.data) # 0
                            /\ ~WellFormed(registry.data) IN
          /\ registry' = registry /\ lockFiles' = lockFiles /\ temp' = temp
          /\ err'[p] \in {"nil", "path", "read"}
          /\ err'[p] = "read" => registry.exists
          /\ err'[p] # "nil" => (meta'[p] = EmptyMap /\ ~warned'[p])
          /\ err'[p] = "nil" =>
                /\ (absent \/ empty \/ malformed) => meta'[p] = EmptyMap
                /\ ~(absent \/ empty \/ malformed) => meta'[p] = Unmarshal(registry.data)
                /\ warned'[p] <=> malformed]_vars

\* C17 witness: the registry file is malformed; the call returned the empty
\* mapping and a nil error, printed the warning and left the file as it was.
C17_Witness ==
    \E p \in SeqProcs :
        /\ pc[p] = "r_ret" /\ err[p] = "nil"
        /\ warned[p]
        /\ meta[p] = EmptyMap
        /\ registry = FileOf(<<TokOpen>>)
        /\ lockFiles = {}

\* C18: whenever writeManagerMeta(m) returned nil and the readManagerMeta
\* call that follows it, with no write in between, returned nil, the
\* mapping read equals m: the same keys and, for each key, the same
\* directory, creation date, versions, port and status.
C18_RoundTrip ==
    \A p \in SeqProcs :
        (pc[p] = "r_ret" /\ cmd[p] = "readback" /\ err[p] = "nil") =>
            /\ meta[p].keys = snap[p].keys
            /\ \A n \in snap[p].keys : meta[p].val[n] = snap[p].val[n]

\* C19: in one createInstance invocation the ports returned by its port
\* searches (Mailpit SMTP, Mailpit Web, Adminer Web, WordPress) are
\* pairwise distinct.
C19_SessionPortsDistinct ==
    \A p \in SeqProcs :
        \A i, j \in 1..Len(alloc[p]) : i # j => alloc[p][i] # alloc[p][j]

\* C20: when a createInstance invocation has ended and the registry holds
\* the entry it wrote, the instance directory that entry points to is still
\* there: no step after the registry write has removed it.
C20_RegisteredDirectoryKept ==
    \A p \in SeqProcs :
        Registered(p) => arg[p].rec.Directory \in dirs

\* The central registration of p's createInstance has failed: its second
\* readManagerMeta or its writeManagerMeta returned an error.
RegistrationFailed(p) ==
    /\ cmd[p] = "create" /\ pc[p] \in {"c_compose", "c_end"}
    /\ arg[p].name # ""
    /\ err[p] \notin {"nil", "none"}

\* C21: once the central registration of a createInstance invocation has
\* failed, the instance directory it created is gone from the disk.
C21_FailedRegistrationRollsBack ==
    \A p \in SeqProcs :
        RegistrationFailed(p) => InstanceDir(arg[p].name) \notin dirs

\* p's createInstance has not reached its registration step: it is between
\* its first readManagerMeta and its second, or has returned from there.
BeforeRegistration(p) ==
    /\ cmd[p] = "create"
    /\ \/ pc[p] \in {"c_ports", "c_files"}
       \/ pc[p] \in {"r_read", "r_ret"} /\ arg[p].name = ""
       \/ pc[p] = "c_end" /\ arg[p].rec.Directory = ""

\* C22: no step of createInstance before its registration step, and none
\* of the failure paths that return from there, calls writeManagerMeta or
\* changes the registry file, the sentinel or a temp file.
C22_EarlyFailureLeavesRegistry ==
    [][\A p \in SeqProcs : BeforeRegistration(p) =>
          /\ registry' = registry
          /\ lockFiles' = lockFiles
          /\ temp' = temp
          /\ pc'[p] \notin WritePCs]_vars

\* C22 witness: a createInstance that failed after it had its port has
\* returned, and the registry file of two entries and the sentinel are as
\* they were.
C22_Witness ==
    \E p \in SeqProcs :
        /\ cmd[p] = "create" /\ pc[p] = "c_end"
        /\ arg[p].name # "" /\ arg[p].rec.Directory = ""
        /\ arg[p].rec.WordPressPort # 0
        /\ registry.exists /\ Unmarshal(registry.data).keys = Names
        /\ lockFiles = {}

\* Where a deleteInstance is between its confirmation and its registry
\* write.
DeletePCs == {"d_stat", "d_rmdir", "d_entry"}

\* C23: a deleteInstance whose directory is present stops the containers
\* (or warns), then deletes the directory (or warns), then removes the
\* registry entry: each step is taken only from the one before it, and up
\* to the writeManagerMeta call the registry file is unchanged and still
\* holds the entry.  When the entry leaves the registry, the directory is
\* gone or its deletion has been tried and reported.
C23_DeleteOrder ==
    [][\A p \in SeqProcs : cmd[p] = "delete" =>
          /\ up' # up => pc[p] = "d_stat"
          /\ pc'[p] = "d_rmdir" => pc[p] \in {"d_stat", "d_rmdir"}
          /\ dirs' # dirs =>
                (pc[p] = "d_rmdir" /\ (arg[p].rec.Directory \notin up \/ warned[p]))
          /\ pc'[p] = "d_entry" => pc[p] \in {"d_rmdir", "d_entry"}
          /\ (pc[p] \in DeletePCs /\ pc'[p] = "w_lock") =>
                \/ pc[p] = "d_entry"
                \/ pc[p] = "d_stat" /\ Stat(arg[p].rec.Directory) = "notexist"
          /\ pc[p] \in DeletePCs =>
                (registry' = registry /\ arg[p].name \in RegistryMap(registry).keys)
          /\ (arg[p].name \in RegistryMap(registry).keys
                /\ arg[p].name \notin RegistryMap(registry').keys) =>
                (arg[p].rec.Directory \notin dirs \/ warned[p])]_vars

\* C23 witness: the containers are stopped and the directory is deleted,
\* and the registry still holds the entry: the process has not yet reached
\* its writeManagerMeta call.
C23_Witness ==
    \E p \in SeqProcs :
        /\ cmd[p] = "delete" /\ pc[p] = "d_entry"
        /\ ~warned[p]
        /\ arg[p].rec.Directory \notin dirs \cup up
        /\ arg[p].name \in RegistryMap(registry).keys
        /\ RegistryMap(registry).val[arg[p].name] = arg[p].rec

\* C24: in a confirmed deleteInstance a failed teardown goes on to the
\* directory deletion like a successful one; after the directory deletion,
\* failed or not, the entry is deleted from the mapping read and that
\* mapping is written; when the directory does not exist the entry is
\* deleted and written at once, no container and no directory being
\* touched.  A write that returns nil leaves the registry without the entry
\* and with every other entry as read.
C24_DeleteGoesThrough ==
    [][\A p \in SeqProcs : cmd[p] = "delete" =>
          /\ (pc[p] = "d_stat" /\ Stat(arg[p].rec.Directory) # "notexist") =>
                (pc'[p] = "d_rmdir" /\ arg'[p] = arg[p] /\ meta'[p] = meta[p])
          /\ pc[p] = "d_rmdir" =>
                (pc'[p] = "d_entry" /\ arg'[p] = arg[p] /\ meta'[p] = meta[p])
          /\ pc[p] = "d_entry" =>
                (pc'[p] = "w_lock" /\ meta'[p] = MapDelete(meta[p], arg[p].name))
          /\ (pc[p] = "d_stat" /\ Stat(arg[p].rec.Directory) = "notexist") =>
                /\ pc'[p] = "w_lock" /\ meta'[p] = MapDelete(meta[p], arg[p].name)
                /\ up' = up /\ dirs' = dirs /\ ~warned'[p]
          /\ (pc'[p] = "w_ret" /\ err'[p] = "nil") =>
                RegistryMap(registry') = MapDelete(snap'[p], arg'[p].name)]_vars

\* C24 witness: the teardown failed and the directory could not be deleted
\* (containers up, directory in place, warning printed), and the write has
\* returned nil with the entry out of the registry.
C24_Witness ==
    \E p \in SeqProcs :
        /\ cmd[p] = "delete" /\ pc[p] = "w_ret" /\ err[p] = "nil"
        /\ warned[p]
        /\ arg[p].rec.Directory \in dirs \cap up
        /\ arg[p].name \in snap[p].keys
        /\ arg[p].name \notin RegistryMap(registry).keys

\* C25: unregisterInstance never touches a directory or a container; it
\* calls writeManagerMeta only from the confirmation, for a registered
\* name, with the mapping it read minus that one entry, and returns when
\* the call returns; an empty name, a name that is not registered and a
\* declined confirmation return with no write.  The registry file changes
\* only inside that call, to the mapping it held minus the entry.
C25_UnregisterExact ==
    [][\A p \in SeqProcs : cmd[p] = "unregister" =>
          /\ dirs' = dirs /\ statErr' = statErr /\ up' = up
          /\ pc[p] \notin WritePCs =>
                (registry' = registry /\ lockFiles' = lockFiles /\ temp' = temp)
          /\ (pc[p] = "u_usage" \/ pc[p] = "w_ret") => pc'[p] = "idle"
          /\ (pc[p] = "r_ret" /\ arg[p].name \notin meta[p].keys) => pc'[p] = "idle"
          /\ pc[p] = "r_ret" => pc'[p] \in {"idle", "w_lock"}
          /\ (pc[p] = "r_ret" /\ pc'[p] = "w_lock") =>
                /\ confirmed'[p]
                /\ arg[p].name \in meta[p].keys
                /\ meta'[p].keys = meta[p].keys \ {arg[p].name}
                /\ \A n \in meta'[p].keys : meta'[p].val[n] = meta[p].val[n]
          /\ registry' # registry =>
                /\ confirmed[p]
                /\ RegistryMap(registry').keys = RegistryMap(registry).keys \ {arg[p].name}
                /\ \A n \in RegistryMap(registry').keys :
                      RegistryMap(registry').val[n] = RegistryMap(registry).val[n]]_vars

\* C25 witness: "a" is unregistered from a registry of two entries; the
\* write has returned nil, "b" is as it was and the directory of "a" is
\* still there.
C25_Witness ==
    \E p \in SeqProcs :
        /\ cmd[p] = "unregister" /\ pc[p] = "w_ret" /\ err[p] = "nil"
        /\ arg[p].name = "a" /\ snap[p].keys = Names
        /\ RegistryMap(registry).keys = {"b"}
        /\ RegistryMap(registry).val["b"] = snap[p].val["b"]
        /\ snap[p].val["a"].Directory \in dirs

\* m and n have the same keys and, for each key, the same directory,
\* creation date, versions and port.
SameButStatus(m, n) ==
    /\ m.keys = n.keys
    /\ \A k \in m.keys : [m.val[k] EXCEPT !.Status = n.val[k].Status] = n.val[k]

\* C26: updateStatuses calls writeManagerMeta at most once, only with a
\* mapping that differs from the one it read, and differs in status fields
\* only; the registry file changes only by that call, to a mapping with the
\* keys, directories, creation dates, versions and ports it had.
C26_UpdateOnlyStatus ==
    [][\A p \in SeqProcs : cmd[p] = "update" =>
          /\ pc[p] \notin WritePCs => registry' = registry
          /\ pc[p] = "r_ret" => pc'[p] \in {"idle", "w_lock"}
          /\ pc[p] = "w_ret" => pc'[p] = "idle"
          /\ (pc[p] = "r_ret" /\ pc'[p] = "w_lock") =>
                (meta'[p] # meta[p] /\ SameButStatus(meta'[p], meta[p]))
          /\ registry' # registry =>
                SameButStatus(RegistryMap(registry'), RegistryMap(registry))]_vars

\* C26 witness: both entries had a stale status; the write has returned nil
\* and the registry holds both with the new status and the rest as read.
C26_Witness ==
    \E p \in SeqProcs :
        /\ cmd[p] = "update" /\ pc[p] = "w_ret" /\ err[p] = "nil"
        /\ snap[p].keys = Names
        /\ \A n \in Names : /\ snap[p].val[n].Status = "Directory Missing"
                            /\ snap[p].val[n].CreationDate = "Unknown"
        /\ RegistryMap(registry).val["a"].Status = "Running"
        /\ RegistryMap(registry).val["b"].Status = "Stopped"
        /\ SameButStatus(RegistryMap(registry), snap[p])

\* C27: when the bytes the validation read of metaEdit got from the edited
\* registry file are malformed, the read returns an error, which is what
\* makes metaEdit print "Metadata Validation Failed After Edit".
C27_EditDetectsCorruption ==
    \A p \in Invokers :
        (/\ cmd[p] = "metaEdit" /\ pc[p] = "r_ret"
         /\ Len(data[p]) # 0 /\ ~WellFormed(data[p]))
            => err[p] \notin {"nil", "none"}

\* C28: when a registerInstance invocation has written the registry, no
\* entry under another name has the directory that was just registered.
C28_RegisteredDirectoryUnique ==
    \A p \in SeqProcs :
        (cmd[p] = "register" /\ pc[p] = "w_ret" /\ err[p] = "nil") =>
            \A k \in RegistryMap(registry).keys \ {arg[p].name} :
                RegistryMap(registry).val[k].Directory # arg[p].rec.Directory

\* The sentinel exists and no running process holds it: whoever created it
\* was killed before its deferred Unlock.
StaleSentinel ==
    /\ MetaLockPath \in lockFiles
    /\ \A p \in Procs : locked[p] => pc[p] = "crashed"

\* C29: a process killed while it holds the sentinel leaves the sentinel in
\* place; from then on the sentinel stays, the registry file never changes,
\* and every writeManagerMeta call that reaches Lock returns the lock error.
C29_StaleSentinelBlocksWrites ==
    [][/\ \A p \in Procs :
            (locked[p] /\ pc[p] # "crashed" /\ pc'[p] = "crashed")
                => MetaLockPath \in lockFiles'
       /\ StaleSentinel =>
            /\ StaleSentinel'
            /\ registry' = registry
            /\ \A p \in Procs :
                  (pc[p] = "w_lock" /\ pc'[p] \notin {"w_lock", "crashed"})
                      => (pc'[p] = "w_ret" /\ err'[p] = "lock")]_vars

\* C29 witness: one process was killed holding the sentinel and a later
\* writeManagerMeta call of the other has returned the lock error.
C29_Witness ==
    /\ StaleSentinel
    /\ \E p, q \in Procs :
          /\ pc[p] = "crashed" /\ locked[p]
          /\ cmd[q] = "write" /\ pc[q] = "w_ret" /\ err[q] = "lock"

\* C30: a createInstance that fails before its os.MkdirAll, at its port
\* searches, has created nothing, so its rollback removes no directory:
\* whatever is at the target path was there before the invocation.
C30_RollbackSparesForeignDirectory ==
    [][\A p \in SeqProcs :
          (cmd[p] = "create" /\ pc[p] = "c_ports") => dirs' = dirs]_vars

====
